---- MODULE Spec2Model ----
(***************************************************************************)
(* Model of the majimix audio mixer (ZombiTefu/majimix).                   *)
(*                                                                         *)
(* Three threads share the state: the control thread (public API of        *)
(* MajimixPa), the producer thread (BufferedMixer::write, which calls      *)
(* MajimixPa::mix under the mutex m) and the callback thread of the audio  *)
(* backend (BufferedMixer::read).  Every shared load and store of the      *)
(* code is one step of the thread that performs it.                        *)
(***************************************************************************)
EXTENDS Integers, Sequences, FiniteSets, TLC

(* ----------------------------- bounds ---------------------------------- *)
\* buffer_count given to the BufferedMixer constructor
BufferCount == 2
\* buffer_sample_size given to the BufferedMixer constructor (frames per packet)
PacketFrames == 2
\* sample_size given to the BufferedMixer constructor (bytes per frame)
SampleSize == 2
\* largest frame count the backend callback asks for
MaxRequest == 3
\* number of voices of the mixer (MajimixPa::set_format, channels argument)
MaxVoices == 2
\* number of voices of the mixer in the specification of one voice
SoloVoices == 1
\* number of PCM sources added
MaxSources == 2
\* frames of every PCM source
SourceFrames == 1
\* frames per packet of the mixer that has voices
MixerFrames == 1
\* number of lines of the KSS cartridge
MaxLines == 1
\* the value of every frame of a PCM source
PcmFrame == 256
\* the value of every frame the KSS engine renders
KssFrame == 256

\* set_format accepts the rates MinRate..MaxRate
MinRate == 8000
MaxRate == 96000
\* set_format is called with FormatVoices voices
FormatVoices == 1
\* set_mixer_buffer_parameters is called with -1..MaxCount packets of
\* -1..MaxFrames frames
MaxCount == 2
MaxFrames == 1

\* the files add_source is called with are named 1..MaxFiles
MaxFiles == 2

\* a cartridge of the KSS specifications has KssLines lines and is activated
\* at most MaxActivations times; its calls name the tracks 0..MaxTrack and
\* ask for fades of 0..MaxFadeMs milliseconds
KssLines == 2
\* add_source_kss is called with the files 0..MaxKssFiles and with 0..MaxLines
\* lines, for at most MaxCartridges cartridges
MaxKssFiles == 1
\* the handle specification starts with MaxSlot - 3 or MaxSlot - 2 sources
\* and lets the source table grow to MaxSlot slots
MaxSlot == 4097
MaxCartridges == 1
MaxActivations == 4
MaxTrack == 2
MaxFadeMs == 1
\* the packets of the KSS specifications have KssFrames frames, or one less
KssFrames == 4
\* a voice that is listened to is followed for MaxHeard frames, or up to
\* one packet more
MaxHeard == 8
\* the files of the specifications of the audio: a stereo file of ToneFrames
\* frames that alternate between 0x1234 and -0x1234, a mono file of
\* RampFrames frames Ramp, 2 * Ramp, ..., and two mono files of ConstFrames
\* frames of the constants +8000 and +4000
ToneFile == 3
RampFile == 4
HighFile == 5
LowFile == 6
ToneFrames == 4
RampFrames == 3
ConstFrames == 2
Ramp == 1000
\* the packets of the specifications of the audio have TonePacket frames,
\* and SumPacket frames where two voices play
TonePacket == 2
SumPacket == 1

VARIABLES
    \* ---- BufferedMixer (mixer_buffer.hpp 52-81)
    buffer_packet_sample_size, \* const int32_t, frames per packet
    sample_size,         \* const int32_t, bytes per frame
    buffer_total_size,   \* const int32_t, bytes of the whole ring
    read_position,       \* atomic<int32_t>, byte offset of the reader packet
    read_inrange_index,  \* byte offset inside the reader packet
    write_position,      \* atomic<int32_t>, byte offset of the writer packet
    producer_on,         \* atomic<bool>
    paused,              \* atomic<bool>
    buffer,              \* per packet slot: "zero" | "torn" | "full"
    m,                   \* owner of std::mutex m: "none" | "producer" | "control"
    \* ---- producer thread (BufferedMixer::write)
    ppc,                 \* position of the producer thread
    next,                \* local `next` of write()
    \* ---- callback thread (BufferedMixer::read)
    rpc,                 \* position of the callback thread
    requested,           \* requested_sample_count of the current/last read
    out_count,           \* bytes copied from the ring by the current/last read
    out_zero,            \* bytes zero-filled by the current/last read
    remaining_out_count, \* local of read()
    out_torn,            \* the current/last read copied bytes of a slot being written
    \* ---- control thread
    cpc,                 \* position of the control thread
    carg,                \* arguments and locals of the API call in progress
    ret,                 \* value returned by the last API call that returns one
    \* ---- audio backend (PortAudio stream of MajimixPa)
    m_stream,            \* stream is open
    stream_active,       \* stream is started (callback is being invoked)
    \* ---- MajimixPa (majimix.cpp 2040-2080)
    mixer,               \* unique_ptr<BufferedMixer>: "null" | "made" (no mix
                         \* function assigned yet) | "bound"
    sampling_rate,       \* frames per second
    channels,            \* output channels, 1 or 2
    bits,                \* output bits per sample, 16 or 24
    master_volume,       \* atomic<int>, 0..255
    sources,             \* vector<unique_ptr<Source>>
    mixer_channels,      \* vector<unique_ptr<MixerChannel>>: the voices
    kss_cartridges,      \* vector<unique_ptr<CartridgeKSS>>
    internal_sample_buffer, \* vector<int>, scratch of one voice
    internal_mix_buffer, \* vector<int>, the packet being mixed
    \* ---- producer thread inside MajimixPa::mix
    pv,                  \* index of the voice / cartridge the mix loop is at
    pl,                  \* index of the KSS line the cartridge read loop is at
    sample_count,        \* local `sample_count` of mix()
    deactivate,          \* local `deactivate` of read_line_convert
    \* ---- observer of the stop-all contract
    stop_all,            \* "none" | "returned": stop_playback(0) has returned and
                         \* no play_source was called since | "pass": and a mix
                         \* pass has begun since
    \* ---- the application
    issued,              \* the handles add_source has returned, each with the
                         \* file it was returned for: a set of << handle, name >>
    \* ---- observer of the track transition
    fade_obs             \* the line of the last update_kss_track that asked for
                         \* a faded change of track, the frames of the fade and
                         \* the frames the line has rendered since
    ,
    \* ---- observer of the voices
    heard                \* per voice listened to: the frames it has added to
                         \* the packet being mixed (n) and the frames it has
                         \* delivered since play_source last rewound it (total)
    ,
    \* ---- observer of the packets
    order                \* where armed: per slot the number of the packet
                         \* mixed into it (stamp), the number of the packet
                         \* being mixed (pub), and the packet (del) and byte
                         \* (off) the callback is to deliver next; numbers
                         \* are counted modulo the slots plus one

vars == << buffer_packet_sample_size, sample_size, buffer_total_size,
           read_position, read_inrange_index, write_position, producer_on, paused,
           buffer, m, ppc, next, rpc, requested, out_count, out_zero,
           remaining_out_count, out_torn, cpc, carg, ret, m_stream, stream_active,
           channels, bits, master_volume, sources, mixer_channels, kss_cartridges,
           internal_sample_buffer, internal_mix_buffer, pv, pl, sample_count,
           stop_all, mixer, sampling_rate, issued, deactivate, fade_obs, heard,
           order >>

ring_vars == << read_position, read_inrange_index, write_position, producer_on,
                paused, buffer, m, ppc, next >>
\* the ring without the position of the producer thread
ring_data == << read_position, read_inrange_index, write_position, producer_on,
                paused, buffer, m, next >>
read_vars == << rpc, requested, out_count, out_zero, remaining_out_count, out_torn >>
ctl_vars == << cpc, carg, ret >>
dev_vars == << m_stream, stream_active >>
\* the BufferedMixer instance with its sizes and the output format: set_format
\* and set_mixer_buffer_parameters alone change them
conf_vars == << mixer, buffer_packet_sample_size, sample_size, buffer_total_size,
                sampling_rate, channels, bits >>
\* the observers
obs_vars == << stop_all, issued, fade_obs, heard, order >>
\* the voices, the sources and the KSS lines
voice_vars == << master_volume, sources, mixer_channels, kss_cartridges >>
\* the scratch buffers and the locals of the mix function
mix_vars == << internal_sample_buffer, internal_mix_buffer, pv, pl, sample_count,
              deactivate >>

(* ------------------------- BufferedMixer sizes -------------------------- *)
buffer_packet_size == buffer_packet_sample_size * sample_size

Min(a, b) == IF a < b THEN a ELSE b

\* index (1-based) of the packet slot that starts at byte offset pos
SlotOf(pos) == (pos \div buffer_packet_size) + 1

(* ------------------------- mutex and condition -------------------------- *)
\* std::mutex::unlock by thread t.  Unlocking a mutex the caller does not own
\* is undefined: the unlock either has no effect or releases the owner's lock.
UnlockOutcomes(t) == IF m = t THEN {"none"} ELSE {m, "none"}

\* cv.notify_one(): wakes the producer if it is blocked in cv.wait, else lost
NotifyOne(p) == IF p = "parked" THEN "wake" ELSE p

\* the predicate of cv.wait in write()
WaitPredicate == (next # read_position /\ ~paused) \/ ~producer_on

(* ----------------------------- control call ----------------------------- *)
\* the control thread is idle: no argument, no local
NoCall == [h |-> 0, l |-> FALSE, p |-> FALSE, i |-> 0, j |-> 0, act |-> FALSE,
           pp |-> FALSE, cont |-> "idle",
           track |-> 0, autostop |-> FALSE, forcable |-> FALSE, force |-> FALSE,
           fade_out_ms |-> 0, update |-> FALSE, value |-> 0]

\* no faded change of track is being observed
NoFade == [cart |-> 0, line |-> 0, need |-> 0, got |-> 0]

(* ------------------------------ handles -------------------------------- *)
\* int handles are two's complement: h & (2^k - 1) is h % 2^k and h >> k is
\* the floored quotient h \div 2^k
get_untyped_source_id(handle) == handle % 4096
get_source_id(handle) == handle % 65536
get_channel_id(handle) == (handle \div 65536) % 4096
get_source_type(handle) == (handle \div 4096) % 16
get_handle(source_id, channel_id) ==
    ((channel_id % 4096) * 65536) + (source_id % 65536)
\* (source_id | 0x1000) & 0xFFFF: bit 12 is set in the low 16 bits
get_kss_source_id(source_id) ==
    LET low == source_id % 65536
    IN  IF (low \div 4096) % 2 = 1 THEN low ELSE low + 4096

(* ------------------------- sources and voices --------------------------- *)
\* an empty unique_ptr<Source>
NoSource == [present |-> FALSE, pcm |-> << >>, channels |-> 0]
\* SourcePCM after load_wave of a 16 bit PCM file recorded at the mixer's
\* rate: pcm holds the bytes of the data chunk, channels its channel count
SourcePCM(wave) == [present |-> TRUE, pcm |-> wave.pcm, channels |-> wave.channels]
\* SourcePCM::size: the frames of a source (data_size / sample_size)
size(source) == IF source.channels = 0 THEN 0 ELSE Len(source.pcm) \div (2 * source.channels)

\* an empty unique_ptr<Sample>
NoSample == [src |-> 0, pos |-> 0]
\* Source::create_sample(): a sample of the source in slot source_id, rewound
create_sample(source_id) == [src |-> source_id, pos |-> 0]

\* MixerChannel(): a free voice that has never played
MixerChannel == [active |-> FALSE, stopped |-> TRUE, paused |-> FALSE,
                 loop |-> FALSE, sample |-> NoSample, sid |-> 0]

\* in_to_i16_le<2>(data + idx): static_cast<unsigned char>(data[0]) |
\* (data[1] << 8), the char data[1] being signed
in_to_i16_le(data, idx) ==
    LET high == IF data[idx + 2] >= 128 THEN data[idx + 2] - 256 ELSE data[idx + 2]
    IN  data[idx + 1] + high * 256

\* decoder(data + idx + c * channel_size) with idx = sample_idx * sample_size,
\* taken % data_size as the code does for the frame after the last
Decoded(source, sample_idx, c) ==
    in_to_i16_le(source.pcm,
                 ((sample_idx * source.channels * 2) % Len(source.pcm)) + c * 2)

\* ((w - v) * sample_frac >> FP_SHIFT) + v
Interpolate(v, w, sample_frac) == (((w - v) * sample_frac) \div 65536) + v

\* the values SourcePCM::read<STEREO_INPUT, STEREO_OUTPUT> writes for the
\* frame at sample_idx: stereo to stereo, mono to stereo (the value twice),
\* and mono or stereo to mono (the channels summed, then >> (channels >> 1))
OutFrame(source, sample_idx, sample_frac) ==
    IF source.channels = 2 /\ channels = 2
    THEN << Interpolate(Decoded(source, sample_idx, 0),
                        Decoded(source, sample_idx + 1, 0), sample_frac),
            Interpolate(Decoded(source, sample_idx, 1),
                        Decoded(source, sample_idx + 1, 1), sample_frac) >>
    ELSE IF channels = 2
    THEN LET l == Interpolate(Decoded(source, sample_idx, 0),
                              Decoded(source, sample_idx + 1, 0), sample_frac)
         IN  << l, l >>
    ELSE LET v == IF source.channels = 2
                  THEN Decoded(source, sample_idx, 0) + Decoded(source, sample_idx, 1)
                  ELSE Decoded(source, sample_idx, 0)
             w == IF source.channels = 2
                  THEN Decoded(source, sample_idx + 1, 0) + Decoded(source, sample_idx + 1, 1)
                  ELSE Decoded(source, sample_idx + 1, 0)
         IN  << Interpolate(v, w, sample_frac) \div (IF source.channels = 2 THEN 2 ELSE 1) >>

\* a read that leaves the sample at its end when the input is exhausted
SampleReadNoRewind(sample, n) ==
    LET source == sources[sample.src]
        r == IF sample.pos < size(source) THEN Min(n, size(source) - sample.pos) ELSE 0
    IN  [frames |-> [k \in 1..(r * channels) |->
                        OutFrame(source, sample.pos + ((k - 1) \div channels), 0)
                                [((k - 1) % channels) + 1]],
         sample |-> [sample EXCEPT !.pos = sample.pos + r]]

\* a read that stops one frame before the end of the source
SampleReadShort(sample, n) ==
    LET source == sources[sample.src]
        r == IF sample.pos < size(source) THEN Min(n, size(source) - sample.pos - 1) ELSE 0
    IN  [frames |-> [k \in 1..(r * channels) |->
                        OutFrame(source, sample.pos + ((k - 1) \div channels), 0)
                                [((k - 1) % channels) + 1]],
         sample |-> [sample EXCEPT !.pos = IF r < n THEN 0 ELSE sample.pos + r]]

\* SamplePCM::read(out, n) of a source recorded at the mixer's rate: the
\* values delivered and the sample afterwards.  sample_step is 1 << FP_SHIFT,
\* so sample_frac is 0 at every frame written and sample_idx advances by one
\* per frame until it reaches size.  A read that delivers fewer than n frames
\* rewinds the sample.
SampleRead(sample, n) ==
    LET source == sources[sample.src]
        r == IF sample.pos < size(source) THEN Min(n, size(source) - sample.pos) ELSE 0
    IN  [frames |-> [k \in 1..(r * channels) |->
                        OutFrame(source, sample.pos + ((k - 1) \div channels), 0)
                                [((k - 1) % channels) + 1]],
         sample |-> [sample EXCEPT !.pos = IF r < n THEN 0 ELSE sample.pos + r]]

(* ------------------------------ KSS lines ------------------------------- *)
\* KSSLine after CartridgeKSS::init_line
KSSLine == [id |-> 0, active |-> FALSE, pause |-> FALSE, autostop |-> FALSE,
            forcable |-> TRUE, current_track |-> 0, next_track |-> 0,
            transition_fadeout |-> 0, master_volume |-> 60, vsync_freq |-> 0]
\* an empty unique_ptr<CartridgeKSS>
NoCartridge == [present |-> FALSE, m_lines |-> << >>, m_next_mixer |-> 0,
                m_master_volume |-> 0]
\* CartridgeKSS(kss, nb_lines, ...)
CartridgeKSS(nb_lines) ==
    [present |-> TRUE, m_lines |-> [k \in 1..nb_lines |-> KSSLine], m_next_mixer |-> 0,
     m_master_volume |-> 60]

(* ------------------------ observer of the voices ----------------------- *)
\* no voice is listened to
Deaf == << >>
\* the voices 1..nv are listened to, none has played
Listening(nv) == [v \in 1..nv |-> [n |-> 0, total |-> 0]]
\* a packet begins: no voice has added a frame to it
NewPacket(obs) == [v \in 1..Len(obs) |-> [obs[v] EXCEPT !.n = 0]]
\* a read of voice v has delivered count frames
Hear(obs, v, count) ==
    IF v > Len(obs) THEN obs
    ELSE [obs EXCEPT ![v] = [n |-> @.n + count, total |-> @.total + count]]
\* play_source has rewound the sample of voice v
Replay(obs, v) == IF v > Len(obs) THEN obs ELSE [obs EXCEPT ![v].total = 0]

(* ------------------------ observer of the packets ---------------------- *)
\* the packets are not numbered
Unordered == [on |-> FALSE, stamp |-> << >>, pub |-> 0, del |-> 0, off |-> 0]
\* start(): the packets are numbered from 0, none is mixed nor delivered
Ordered(count) ==
    [on |-> TRUE, stamp |-> [i \in 1..count |-> 0], pub |-> 0, del |-> 0, off |-> 0]
\* the numbers of the packets
PacketNumbers(obs) == Len(obs.stamp) + 1
\* start() of a stopped producer
Restarted(obs) == IF obs.on THEN Ordered(Len(obs.stamp)) ELSE obs
\* mix has written the packet being mixed into a slot
Stamped(obs, slot) == IF obs.on THEN [obs EXCEPT !.stamp[slot] = obs.pub] ELSE obs
\* write() has published the packet it mixed
Published(obs) ==
    IF obs.on THEN [obs EXCEPT !.pub = (obs.pub + 1) % PacketNumbers(obs)] ELSE obs
\* read() has copied count bytes to the output, of packets of packet_size bytes
Delivered(obs, count, packet_size) ==
    IF ~obs.on \/ count = 0 THEN obs
    ELSE IF obs.off + count >= packet_size
         THEN [obs EXCEPT !.del = (obs.del + 1) % PacketNumbers(obs), !.off = 0]
         ELSE [obs EXCEPT !.off = obs.off + count]

(* ------------------------------ Init ------------------------------------ *)
\* the ring of BufferCount packets, stopped, with the observer obs of the packets
InitRingOf(obs) ==
    /\ buffer_packet_sample_size = PacketFrames
    /\ sample_size = SampleSize
    /\ buffer_total_size = BufferCount * PacketFrames * SampleSize
    /\ read_position = 0
    /\ read_inrange_index = 0
    /\ write_position = 0
    /\ producer_on = FALSE
    /\ paused = FALSE
    /\ buffer = [i \in 1..BufferCount |-> "zero"]
    /\ m = "none"
    /\ ppc = "off"
    /\ next = 0
    /\ rpc = "idle"
    /\ requested = 0
    /\ out_count = 0
    /\ out_zero = 0
    /\ remaining_out_count = 0
    /\ out_torn = FALSE
    /\ cpc = "idle"
    /\ carg = NoCall
    /\ ret = [op |-> "none", val |-> 0]
    /\ m_stream = FALSE
    /\ stream_active = FALSE
    /\ channels = 1
    /\ bits = 8 * SampleSize
    /\ master_volume = 128
    /\ sources = << >>
    /\ mixer_channels = << >>
    /\ kss_cartridges = << >>
    /\ internal_sample_buffer = [k \in 1..PacketFrames |-> 0]
    /\ internal_mix_buffer = [k \in 1..PacketFrames |-> 0]
    /\ pv = 0
    /\ pl = 0
    /\ sample_count = 0
    /\ deactivate = FALSE
    /\ stop_all = "none"
    /\ mixer = "bound"
    /\ sampling_rate = 44100
    /\ issued = {}
    /\ fade_obs = NoFade
    /\ heard = Deaf
    /\ order = obs

InitRing == InitRingOf(Unordered)

(* --------------------- producer: BufferedMixer::write ------------------- *)
\* while(producer_on)
WriteLoop ==
    /\ ppc = "loop"
    /\ ppc' = IF producer_on THEN "lock" ELSE "exited"
    /\ UNCHANGED << read_position, read_inrange_index, write_position, producer_on,
                    paused, buffer, m, next >>
    /\ UNCHANGED << read_vars, ctl_vars, dev_vars >>
    /\ UNCHANGED << conf_vars, obs_vars, voice_vars, mix_vars >>

\* std::unique_lock<std::mutex> lkp(m); then mix(...) is entered
WriteLock ==
    /\ ppc = "lock"
    /\ m = "none"
    /\ m' = "producer"
    /\ ppc' = "mix"
    /\ UNCHANGED << read_position, read_inrange_index, write_position, producer_on,
                    paused, buffer, next >>
    /\ UNCHANGED << read_vars, ctl_vars, dev_vars >>
    /\ UNCHANGED << conf_vars, obs_vars, voice_vars, mix_vars >>

(* ------------------------ producer: MajimixPa::mix ---------------------- *)
\* position of the mix loop once voice i - 1 is done: the next voice, or the
\* first cartridge after the last voice
VoicePc(i) == IF i <= Len(mixer_channels) THEN "v_active" ELSE "k_cart"
VoiceIdx(i) == IF i <= Len(mixer_channels) THEN i ELSE 1

\* out with the values of frames written from index idx + 1 on
Overwrite(out, idx, frames) ==
    [k \in 1..Len(out) |->
        IF k > idx /\ k <= idx + Len(frames) THEN frames[k - idx] ELSE out[k]]

\* the first count values of the scratch stored over those of the mix buffer
AddPrefixStores(mixbuf, samples, count) ==
    [k \in 1..Len(mixbuf) |-> IF k <= count THEN samples[k] ELSE mixbuf[k]]

\* std::transform(..., std::plus<int>()) over the first count values
AddPrefix(mixbuf, samples, count) ==
    [k \in 1..Len(mixbuf) |-> IF k <= count THEN mixbuf[k] + samples[k] ELSE mixbuf[k]]

\* sample->read(out, n) of voice v.  Reading through a sample that has been
\* reset under the producer is undefined: any count, the scratch is not written.
ReadOutcomes(v, n) ==
    IF mixer_channels[v].sample = NoSample
    THEN { [frames |-> [k \in 1..c |-> internal_sample_buffer[k]], sample |-> NoSample]
             : c \in 0..n }
    ELSE { SampleRead(mixer_channels[v].sample, n) }

\* MajimixPa::mix, first statement: std::fill(internal_mix_buffer, 0).  The
\* packet slot at write_position is now the output view of the mix function.
MixBegin ==
    /\ ppc = "mix"
    /\ buffer_total_size # 0
    /\ buffer' = [buffer EXCEPT ![SlotOf(write_position)] = "torn"]
    /\ internal_mix_buffer' = [k \in 1..Len(internal_mix_buffer) |-> 0]
    /\ pv' = 1
    /\ ppc' = VoicePc(1)
    /\ stop_all' = IF stop_all = "none" THEN "none" ELSE "pass"
    /\ \A v \in 1..Len(heard) : heard[v].total < MaxHeard
    /\ heard' = NewPacket(heard)
    /\ UNCHANGED << issued, fade_obs, order >>
    /\ UNCHANGED << read_position, read_inrange_index, write_position, producer_on,
                    paused, m, next >>
    /\ UNCHANGED << internal_sample_buffer, pl, sample_count, deactivate >>
    /\ UNCHANGED << read_vars, ctl_vars, dev_vars, conf_vars, voice_vars >>

\* The ring has no byte (buffer_count or buffer_sample_size was 0): mix writes
\* buffer_packet_size bytes at buffer.begin() of an empty vector and write()
\* computes (write_position + buffer_packet_size) % buffer_total_size, a
\* division by zero.  Both are undefined; the producer thread does not come
\* back from them.
MixZeroRing ==
    /\ ppc = "mix"
    /\ buffer_total_size = 0
    /\ ppc' = "fault"
    /\ UNCHANGED << ring_data, read_vars, ctl_vars, dev_vars >>
    /\ UNCHANGED << conf_vars, obs_vars, voice_vars, mix_vars >>

\* if(mix_channel->active)
MixVoiceActive ==
    /\ ppc = "v_active"
    /\ IF mixer_channels[pv].active
       THEN /\ ppc' = "v_stopped"
            /\ sample_count' = 0
            /\ UNCHANGED pv
       ELSE /\ ppc' = VoicePc(pv + 1)
            /\ pv' = VoiceIdx(pv + 1)
            /\ UNCHANGED sample_count
    /\ UNCHANGED << ring_data, read_vars, ctl_vars, dev_vars, conf_vars, obs_vars, voice_vars >>
    /\ UNCHANGED << internal_sample_buffer, internal_mix_buffer, pl, deactivate >>

\* if(mix_channel->stopped || !mix_channel->sample) deactivate = true
MixVoiceStopped ==
    /\ ppc = "v_stopped"
    /\ ppc' = IF mixer_channels[pv].stopped \/ mixer_channels[pv].sample = NoSample
              THEN "v_deact" ELSE "v_paused"
    /\ UNCHANGED << ring_data, read_vars, ctl_vars, dev_vars, conf_vars, obs_vars, voice_vars >>
    /\ UNCHANGED mix_vars

\* mix reading a voice whether it is paused or not
MixVoicePausedReads ==
    /\ ppc = "v_paused"
    /\ ppc' = "v_read"
    /\ UNCHANGED pv
    /\ UNCHANGED << ring_data, read_vars, ctl_vars, dev_vars, conf_vars, obs_vars, voice_vars >>
    /\ UNCHANGED << internal_sample_buffer, internal_mix_buffer, pl, sample_count, deactivate >>

\* else if(!mix_channel->paused): a paused voice is left as it is
MixVoicePaused ==
    /\ ppc = "v_paused"
    /\ IF mixer_channels[pv].paused
       THEN /\ ppc' = VoicePc(pv + 1)
            /\ pv' = VoiceIdx(pv + 1)
       ELSE /\ ppc' = "v_read"
            /\ UNCHANGED pv
    /\ UNCHANGED << ring_data, read_vars, ctl_vars, dev_vars, conf_vars, obs_vars, voice_vars >>
    /\ UNCHANGED << internal_sample_buffer, internal_mix_buffer, pl, sample_count, deactivate >>

\* once the reads of a voice are over: add the frames read to the mix buffer;
\* a voice that delivered fewer frames than requested is deactivated
MixVoiceAdd(count, scratch) ==
    /\ internal_mix_buffer' = AddPrefix(internal_mix_buffer, scratch, count * channels)
    /\ IF count < buffer_packet_sample_size
       THEN /\ ppc' = "v_deact"
            /\ UNCHANGED pv
       ELSE /\ ppc' = VoicePc(pv + 1)
            /\ pv' = VoiceIdx(pv + 1)

\* one sample->read of the voice at scratch offset sample_count: the first
\* read, or one pass of the refill loop of a looping voice
MixVoiceReadAt(refill) ==
    \E rd \in ReadOutcomes(pv, buffer_packet_sample_size - sample_count) :
       LET count == sample_count + Len(rd.frames) \div channels
           scratch == Overwrite(internal_sample_buffer, sample_count * channels, rd.frames)
       IN  /\ mixer_channels' = [mixer_channels EXCEPT ![pv].sample = rd.sample]
           /\ heard' = Hear(heard, pv, Len(rd.frames) \div channels)
           /\ UNCHANGED order
           /\ internal_sample_buffer' = scratch
           /\ sample_count' = count
           /\ IF (refill \/ mixer_channels[pv].loop) /\ count < buffer_packet_sample_size
              THEN /\ ppc' = "v_refill"
                   /\ UNCHANGED << pv, internal_mix_buffer >>
              ELSE MixVoiceAdd(count, scratch)

\* sample_count = sample->read(...); if(loop && sample_count < requested) ...
MixVoiceRead ==
    /\ ppc = "v_read"
    /\ MixVoiceReadAt(FALSE)
    /\ UNCHANGED << ring_data, read_vars, ctl_vars, dev_vars, conf_vars >>
    /\ UNCHANGED << stop_all, issued, fade_obs >>
    /\ UNCHANGED << master_volume, sources, kss_cartridges, pl, deactivate >>

\* while(sample_count < requested) sample_count += sample->read(...)
MixVoiceRefill ==
    /\ ppc = "v_refill"
    /\ MixVoiceReadAt(TRUE)
    /\ UNCHANGED << ring_data, read_vars, ctl_vars, dev_vars, conf_vars >>
    /\ UNCHANGED << stop_all, issued, fade_obs >>
    /\ UNCHANGED << master_volume, sources, kss_cartridges, pl, deactivate >>

\* if(deactivate) { stopped = true; active = false; }
MixVoiceDeactivate ==
    /\ ppc = "v_deact"
    /\ mixer_channels' = [mixer_channels EXCEPT ![pv].stopped = TRUE, ![pv].active = FALSE]
    /\ ppc' = VoicePc(pv + 1)
    /\ pv' = VoiceIdx(pv + 1)
    /\ UNCHANGED << ring_data, read_vars, ctl_vars, dev_vars, conf_vars, obs_vars >>
    /\ UNCHANGED << master_volume, sources, kss_cartridges >>
    /\ UNCHANGED << internal_sample_buffer, internal_mix_buffer, pl, sample_count, deactivate >>

\* for(auto &ck : kss_cartridges) if(ck) ck->read(...)
MixCartridge ==
    /\ ppc = "k_cart"
    /\ IF pv > Len(kss_cartridges)
       THEN /\ ppc' = "encode"
            /\ UNCHANGED << pv, pl >>
       ELSE IF kss_cartridges[pv].present /\ Len(kss_cartridges[pv].m_lines) > 0
            THEN /\ ppc' = "k_active"
                 /\ pl' = 1
                 /\ UNCHANGED pv
            ELSE /\ pv' = pv + 1
                 /\ UNCHANGED << ppc, pl >>
    /\ UNCHANGED << ring_data, read_vars, ctl_vars, dev_vars, conf_vars, obs_vars, voice_vars >>
    /\ UNCHANGED << internal_sample_buffer, internal_mix_buffer, sample_count, deactivate >>

\* the line the cartridge read loop is at, as the producer sees it.  A
\* cartridge reset under the producer leaves freed memory: any flags.
LineView ==
    IF kss_cartridges[pv].present
    THEN { kss_cartridges[pv].m_lines[pl] }
    ELSE { [KSSLine EXCEPT !.active = a, !.pause = b] : a, b \in BOOLEAN }

\* for(auto &l : m_lines): the next line, or the next cartridge after the last
LastLine == ~kss_cartridges[pv].present \/ pl >= Len(kss_cartridges[pv].m_lines)
LinePc == IF LastLine THEN "k_cart" ELSE "k_active"
LineCart == IF LastLine THEN pv + 1 ELSE pv
LineIdx == IF LastLine THEN pl ELSE pl + 1

\* read_line_convert: if(line.active)
KssLineActive ==
    /\ ppc = "k_active"
    /\ \E line \in LineView :
          IF line.active
          THEN /\ ppc' = "k_pause"
               /\ UNCHANGED << pv, pl >>
          ELSE /\ ppc' = LinePc
               /\ pv' = LineCart
               /\ pl' = LineIdx
    /\ UNCHANGED << ring_data, read_vars, ctl_vars, dev_vars, conf_vars, obs_vars, voice_vars >>
    /\ UNCHANGED << internal_sample_buffer, internal_mix_buffer, sample_count, deactivate >>

\* read_line_convert: if(!deactivate && !line.pause)
KssLinePause ==
    /\ ppc = "k_pause"
    /\ \E line \in LineView :
          IF line.pause
          THEN /\ ppc' = LinePc
               /\ pv' = LineCart
               /\ pl' = LineIdx
          ELSE /\ ppc' = "k_calc"
               /\ UNCHANGED << pv, pl >>
    /\ UNCHANGED << ring_data, read_vars, ctl_vars, dev_vars, conf_vars, obs_vars, voice_vars >>
    /\ UNCHANGED << internal_sample_buffer, internal_mix_buffer, sample_count, deactivate >>

\* a promotion that does not wait for the end of the fade
PromotedDuringFade(line) ==
    IF line.next_track # 0
    THEN [line EXCEPT !.current_track = line.next_track, !.next_track = 0]
    ELSE line

\* if(line.next_track && !line.transition_fadeout): the pending track
\* becomes the current one and the engine is reset to it
Promoted(line) ==
    IF line.next_track # 0 /\ line.transition_fadeout = 0
    THEN [line EXCEPT !.current_track = line.next_track, !.next_track = 0]
    ELSE line

\* the 16 bit frames of KSSPLAY_calc added to the mix buffer: as they are for
\* 16 bit output (N == 2), shifted left by 8 for 24 bit output (N == 3)
AddKss(mixbuf) ==
    [k \in 1..Len(mixbuf) |-> mixbuf[k] + (IF bits = 16 THEN KssFrame ELSE KssFrame * 256)]

\* the frames the observed line has rendered since update_kss_track
Rendered(obs) ==
    IF obs.cart = pv /\ obs.line = pl
    THEN [obs EXCEPT !.got = Min(obs.need, @ + buffer_packet_sample_size)]
    ELSE obs

\* read_line_convert: the promotion of the pending track, KSSPLAY_calc, the
\* additive transform and deactivate = autostop && stop flag of the engine
KssLineCalc ==
    /\ ppc = "k_calc"
    /\ \E line \in LineView, stop_flag \in BOOLEAN :
          /\ kss_cartridges' =
                IF kss_cartridges[pv].present
                THEN [kss_cartridges EXCEPT ![pv].m_lines[pl] = Promoted(line)]
                ELSE kss_cartridges
          /\ deactivate' = (line.autostop /\ stop_flag)
    /\ internal_mix_buffer' = AddKss(internal_mix_buffer)
    /\ fade_obs' = Rendered(fade_obs)
    /\ ppc' = "k_fade"
    /\ UNCHANGED << ring_data, read_vars, ctl_vars, dev_vars, conf_vars >>
    /\ UNCHANGED << stop_all, issued, heard, order, master_volume, sources, mixer_channels >>
    /\ UNCHANGED << internal_sample_buffer, pv, pl, sample_count >>

\* if(line.transition_fadeout): a fade shorter than the packet ends, the
\* others lose the frames of the packet
FadeAfter(line) ==
    IF line.transition_fadeout = 0 THEN line
    ELSE IF line.transition_fadeout < buffer_packet_sample_size
         THEN [line EXCEPT !.transition_fadeout = 0]
         ELSE [line EXCEPT !.transition_fadeout = @ - buffer_packet_sample_size]

\* the end of a fade frees the line whatever track is pending
FadeDeactivateAlways(line, d) ==
    IF line.transition_fadeout # 0 /\ line.transition_fadeout < buffer_packet_sample_size
    THEN TRUE
    ELSE d

\* deactivate = !line.next_track at the end of a fade
FadeDeactivate(line, d) ==
    IF line.transition_fadeout # 0 /\ line.transition_fadeout < buffer_packet_sample_size
    THEN line.next_track = 0
    ELSE d

\* read_line_convert: the fade counter of the line, then if(deactivate)
KssLineFade ==
    /\ ppc = "k_fade"
    /\ \E line \in LineView :
          /\ kss_cartridges' =
                IF kss_cartridges[pv].present
                THEN [kss_cartridges EXCEPT ![pv].m_lines[pl] = FadeAfter(line)]
                ELSE kss_cartridges
          /\ deactivate' = FadeDeactivate(line, deactivate)
          /\ IF FadeDeactivate(line, deactivate)
             THEN /\ ppc' = "k_deact"
                  /\ UNCHANGED << pv, pl >>
             ELSE /\ ppc' = LinePc
                  /\ pv' = LineCart
                  /\ pl' = LineIdx
    /\ UNCHANGED << ring_data, read_vars, ctl_vars, dev_vars, conf_vars, obs_vars >>
    /\ UNCHANGED << master_volume, sources, mixer_channels >>
    /\ UNCHANGED << internal_sample_buffer, internal_mix_buffer, sample_count >>

\* read_line_convert: if(deactivate) line.active = false
KssLineDeactivate ==
    /\ ppc = "k_deact"
    /\ kss_cartridges' =
          IF kss_cartridges[pv].present
          THEN [kss_cartridges EXCEPT ![pv].m_lines[pl].active = FALSE]
          ELSE kss_cartridges
    /\ ppc' = LinePc
    /\ pv' = LineCart
    /\ pl' = LineIdx
    /\ UNCHANGED << ring_data, read_vars, ctl_vars, dev_vars, conf_vars, obs_vars >>
    /\ UNCHANGED << master_volume, sources, mixer_channels >>
    /\ UNCHANGED << internal_sample_buffer, internal_mix_buffer, sample_count, deactivate >>

\* an encoder that clamps each value to the signed range of the output
EncodeNbitsSaturated(mixbuf) ==
    [k \in 1..(Len(mixbuf) * (bits \div 8)) |->
        LET n == mixbuf[((k - 1) \div (bits \div 8)) + 1]
            top == IF bits = 24 THEN 8388607 ELSE 32767
            v == IF n > top THEN top ELSE IF n < 0 - top - 1 THEN 0 - top - 1 ELSE n
            b == (k - 1) % (bits \div 8)
        IN  IF b = 0 THEN v % 256
            ELSE IF b = 1 THEN (v \div 256) % 256
            ELSE (v \div 65536) % 256]

\* encode_Nbits<N>: the bytes of the packet, little endian, N = bits / 8
EncodeNbits(mixbuf) ==
    [k \in 1..(Len(mixbuf) * (bits \div 8)) |->
        LET v == mixbuf[((k - 1) \div (bits \div 8)) + 1]
            b == (k - 1) % (bits \div 8)
        IN  IF b = 0 THEN v % 256
            ELSE IF b = 1 THEN (v \div 256) % 256
            ELSE (v \div 65536) % 256]

\* the master volume applied with a quotient rounded toward zero
ApplyVolumeTowardZero(mixbuf, vol) ==
    [k \in 1..Len(mixbuf) |->
        IF mixbuf[k] < 0 THEN 0 - (((0 - mixbuf[k]) * vol) \div 256)
        ELSE (mixbuf[k] * vol) \div 256]

\* n = ((int_fast64_t) n * vol) >> 8 on every value of the mix buffer.  The
\* 64-bit product is taken by parts, n = 256 * q + r with r in 0..255, so
\* that a sum near the ends of the 32-bit range needs no wider integer:
\* (n * vol) >> 8 = q * vol + ((r * vol) >> 8).
ApplyVolume(mixbuf, vol) ==
    [k \in 1..Len(mixbuf) |->
        ((mixbuf[k] \div 256) * vol) + (((mixbuf[k] % 256) * vol) \div 256)]

\* MajimixPa::mix, last statements: the master volume is applied and
\* encode(it_out) writes the whole slot
MixEncode ==
    /\ ppc = "encode"
    /\ internal_mix_buffer' = ApplyVolume(internal_mix_buffer, master_volume)
    /\ buffer' = [buffer EXCEPT ![SlotOf(write_position)] = "full"]
    /\ ppc' = "unlock"
    /\ order' = Stamped(order, SlotOf(write_position))
    /\ UNCHANGED << stop_all, issued, fade_obs, heard >>
    /\ UNCHANGED << read_position, read_inrange_index, write_position, producer_on,
                    paused, m, next >>
    /\ UNCHANGED << internal_sample_buffer, pv, pl, sample_count, deactivate >>
    /\ UNCHANGED << read_vars, ctl_vars, dev_vars, conf_vars, voice_vars >>

(* --------------------- producer: BufferedMixer::write ------------------- *)
\* m.unlock(); next = (write_position + buffer_packet_size) % buffer_total_size
WriteUnlock ==
    /\ ppc = "unlock"
    /\ m' \in UnlockOutcomes("producer")
    /\ next' = (write_position + buffer_packet_size) % buffer_total_size
    /\ ppc' = "chk"
    /\ UNCHANGED << read_position, read_inrange_index, write_position, producer_on,
                    paused, buffer >>
    /\ UNCHANGED << read_vars, ctl_vars, dev_vars >>
    /\ UNCHANGED << conf_vars, obs_vars, voice_vars, mix_vars >>

\* a producer that publishes without looking at read_position
WriteCheckNoWait ==
    /\ ppc = "chk"
    /\ ppc' = IF paused /\ producer_on THEN "wlock" ELSE "pub"
    /\ UNCHANGED << read_position, read_inrange_index, write_position, producer_on,
                    paused, buffer, m, next >>
    /\ UNCHANGED << read_vars, ctl_vars, dev_vars >>
    /\ UNCHANGED << conf_vars, obs_vars, voice_vars, mix_vars >>

\* while((next == read_position || paused) && producer_on)
WriteCheck ==
    /\ ppc = "chk"
    /\ ppc' = IF (next = read_position \/ paused) /\ producer_on THEN "wlock" ELSE "pub"
    /\ UNCHANGED << read_position, read_inrange_index, write_position, producer_on,
                    paused, buffer, m, next >>
    /\ UNCHANGED << read_vars, ctl_vars, dev_vars >>
    /\ UNCHANGED << conf_vars, obs_vars, voice_vars, mix_vars >>

\* std::unique_lock<std::mutex> lk(m); cv.wait(lk, pred): first evaluation of pred
WriteWaitLock ==
    /\ ppc = "wlock"
    /\ m = "none"
    /\ m' = "producer"
    /\ ppc' = IF WaitPredicate THEN "wunlock" ELSE "wpark"
    /\ UNCHANGED << read_position, read_inrange_index, write_position, producer_on,
                    paused, buffer, next >>
    /\ UNCHANGED << read_vars, ctl_vars, dev_vars >>
    /\ UNCHANGED << conf_vars, obs_vars, voice_vars, mix_vars >>

\* cv.wait: the predicate was false, the thread releases m and blocks
WritePark ==
    /\ ppc = "wpark"
    /\ m' \in UnlockOutcomes("producer")
    /\ ppc' = "parked"
    /\ UNCHANGED << read_position, read_inrange_index, write_position, producer_on,
                    paused, buffer, next >>
    /\ UNCHANGED << read_vars, ctl_vars, dev_vars >>
    /\ UNCHANGED << conf_vars, obs_vars, voice_vars, mix_vars >>

\* cv.wait: a spurious wakeup, which the standard permits at any time
SpuriousWake ==
    /\ ppc = "parked"
    /\ ppc' = "wake"
    /\ UNCHANGED << read_position, read_inrange_index, write_position, producer_on,
                    paused, buffer, m, next >>
    /\ UNCHANGED << read_vars, ctl_vars, dev_vars >>
    /\ UNCHANGED << conf_vars, obs_vars, voice_vars, mix_vars >>

\* cv.wait: the woken thread takes m again and evaluates pred again
WriteWake ==
    /\ ppc = "wake"
    /\ m = "none"
    /\ m' = "producer"
    /\ ppc' = IF WaitPredicate THEN "wunlock" ELSE "wpark"
    /\ UNCHANGED << read_position, read_inrange_index, write_position, producer_on,
                    paused, buffer, next >>
    /\ UNCHANGED << read_vars, ctl_vars, dev_vars >>
    /\ UNCHANGED << conf_vars, obs_vars, voice_vars, mix_vars >>

\* end of the wait block: lk goes out of scope and unlocks m
WriteWaitUnlock ==
    /\ ppc = "wunlock"
    /\ m' \in UnlockOutcomes("producer")
    /\ ppc' = "chk"
    /\ UNCHANGED << read_position, read_inrange_index, write_position, producer_on,
                    paused, buffer, next >>
    /\ UNCHANGED << read_vars, ctl_vars, dev_vars >>
    /\ UNCHANGED << conf_vars, obs_vars, voice_vars, mix_vars >>

\* write_position = next; then lkp goes out of scope: its destructor unlocks m a
\* second time although m.unlock() already released it
WritePublish ==
    /\ ppc = "pub"
    /\ write_position' = next
    /\ m' \in UnlockOutcomes("producer")
    /\ ppc' = "loop"
    /\ order' = Published(order)
    /\ UNCHANGED << stop_all, issued, fade_obs, heard >>
    /\ UNCHANGED << read_position, read_inrange_index, producer_on, paused, buffer, next >>
    /\ UNCHANGED << read_vars, ctl_vars, dev_vars >>
    /\ UNCHANGED << conf_vars, voice_vars, mix_vars >>

MixStep ==
    \/ MixBegin \/ MixVoiceActive \/ MixVoiceStopped \/ MixVoicePaused \/ MixVoiceRead
    \/ MixVoiceRefill \/ MixVoiceDeactivate \/ MixCartridge \/ KssLineActive
    \/ KssLinePause \/ KssLineCalc \/ KssLineFade \/ KssLineDeactivate
    \/ MixEncode

ProducerStep ==
    \/ WriteLoop \/ WriteLock \/ MixStep \/ WriteUnlock \/ WriteCheck
    \/ WriteWaitLock \/ WritePark \/ WriteWake \/ WriteWaitUnlock \/ WritePublish

(* --------------------- callback: BufferedMixer::read -------------------- *)
\* entry of read(out_buffer, n): the backend invokes the callback only while
\* the stream is started
ReadBegin(n) ==
    /\ rpc = "idle"
    /\ stream_active
    /\ requested' = n
    /\ out_count' = 0
    /\ out_zero' = 0
    /\ out_torn' = FALSE
    /\ remaining_out_count' = n * sample_size
    /\ rpc' = "check"
    /\ UNCHANGED << ring_vars, ctl_vars, dev_vars >>
    /\ UNCHANGED << conf_vars, obs_vars, voice_vars, mix_vars >>

\* ReadCheck with the zero fill of the underrun branch left out
ReadCheckNoFill ==
    /\ rpc = "check"
    /\ IF write_position = read_position
       THEN /\ remaining_out_count' = 0
            /\ rpc' = "idle"
            /\ UNCHANGED out_zero
       ELSE /\ rpc' = "copy"
            /\ UNCHANGED << out_zero, remaining_out_count >>
    /\ UNCHANGED << requested, out_count, out_torn >>
    /\ UNCHANGED << ring_vars, ctl_vars, dev_vars >>
    /\ UNCHANGED << conf_vars, obs_vars, voice_vars, mix_vars >>

\* if(write_position == read_position) { fill the remainder with 0; return; }
ReadCheck ==
    /\ rpc = "check"
    /\ IF write_position = read_position
       THEN /\ out_zero' = remaining_out_count
            /\ remaining_out_count' = 0
            /\ rpc' = "idle"
       ELSE /\ rpc' = "copy"
            /\ UNCHANGED << out_zero, remaining_out_count >>
    /\ UNCHANGED << requested, out_count, out_torn >>
    /\ UNCHANGED << ring_vars, ctl_vars, dev_vars >>
    /\ UNCHANGED << conf_vars, obs_vars, voice_vars, mix_vars >>

\* a read that forgets how far into the packet it has copied
ReadCopyNoResume ==
    /\ rpc = "copy"
    /\ LET remaining_range_count == buffer_packet_size - read_inrange_index
           take_range_count == Min(remaining_range_count, remaining_out_count)
           cur_range_position == read_position + read_inrange_index
           stay == remaining_range_count - take_range_count # 0
       IN  /\ out_count' = out_count + take_range_count
           /\ out_torn' = (out_torn \/ (take_range_count > 0
                                        /\ buffer[SlotOf(cur_range_position)] # "full"))
           /\ remaining_out_count' = remaining_out_count - take_range_count
           /\ order' = Delivered(order, take_range_count, buffer_packet_size)
           /\ IF stay
              THEN /\ read_inrange_index' = 0
                   /\ UNCHANGED << read_position, ppc >>
              ELSE /\ read_inrange_index' = 0
                   /\ read_position' = (read_position + buffer_packet_size) % buffer_total_size
                   /\ ppc' = NotifyOne(ppc)
           /\ rpc' = IF remaining_out_count - take_range_count # 0 THEN "check" ELSE "idle"
    /\ UNCHANGED << requested, out_zero >>
    /\ UNCHANGED << write_position, producer_on, paused, buffer, m, next >>
    /\ UNCHANGED << ctl_vars, dev_vars >>
    /\ UNCHANGED << stop_all, issued, fade_obs, heard >>
    /\ UNCHANGED << conf_vars, voice_vars, mix_vars >>

\* one pass of the copy: take bytes of the reader packet, then either stay in the
\* packet or move to the next one and notify the producer
ReadCopy ==
    /\ rpc = "copy"
    /\ LET remaining_range_count == buffer_packet_size - read_inrange_index
           take_range_count == Min(remaining_range_count, remaining_out_count)
           cur_range_position == read_position + read_inrange_index
           stay == remaining_range_count - take_range_count # 0
       IN  /\ out_count' = out_count + take_range_count
           /\ out_torn' = (out_torn \/ (take_range_count > 0
                                        /\ buffer[SlotOf(cur_range_position)] # "full"))
           /\ remaining_out_count' = remaining_out_count - take_range_count
           /\ order' = Delivered(order, take_range_count, buffer_packet_size)
           /\ IF stay
              THEN /\ read_inrange_index' = read_inrange_index + take_range_count
                   /\ UNCHANGED << read_position, ppc >>
              ELSE /\ read_inrange_index' = 0
                   /\ read_position' = (read_position + buffer_packet_size) % buffer_total_size
                   /\ ppc' = NotifyOne(ppc)
           /\ rpc' = IF remaining_out_count - take_range_count # 0 THEN "check" ELSE "idle"
    /\ UNCHANGED << requested, out_zero >>
    /\ UNCHANGED << write_position, producer_on, paused, buffer, m, next >>
    /\ UNCHANGED << ctl_vars, dev_vars >>
    /\ UNCHANGED << stop_all, issued, fade_obs, heard >>
    /\ UNCHANGED << conf_vars, voice_vars, mix_vars >>

ReadStep == ReadCheck \/ ReadCopy

(* ------------------- control: BufferedMixer::pause ---------------------- *)
\* a call of BufferedMixer::pause(p) by an API call whose next statement is
\* cont: if(this->paused == paused) return;
PauseEntry(p, cont) == IF paused = p THEN cont ELSE "pause_lock"
PauseCall(c, p, cont) == IF paused = p THEN (IF cont = "idle" THEN NoCall ELSE c)
                         ELSE [c EXCEPT !.pp = p, !.cont = cont]

\* the body of pause(p) after the early return: lock_guard lg(m); paused = p;
\* cv.notify_one()
PauseLock ==
    /\ cpc = "pause_lock"
    /\ m = "none"
    /\ m' = "control"
    /\ paused' = carg.pp
    /\ ppc' = NotifyOne(ppc)
    /\ cpc' = "pause_unlock"
    /\ UNCHANGED << read_position, read_inrange_index, write_position, producer_on,
                    buffer, next, carg, ret >>
    /\ UNCHANGED << read_vars, dev_vars >>
    /\ UNCHANGED << conf_vars, obs_vars, voice_vars, mix_vars >>

\* lg goes out of scope; pause returns
PauseUnlock ==
    /\ cpc = "pause_unlock"
    /\ m' \in UnlockOutcomes("control")
    /\ cpc' = carg.cont
    /\ carg' = IF carg.cont = "idle" THEN NoCall ELSE carg
    /\ UNCHANGED << read_position, read_inrange_index, write_position, producer_on,
                    paused, buffer, ppc, next, ret >>
    /\ UNCHANGED << read_vars, dev_vars >>
    /\ UNCHANGED << conf_vars, obs_vars, voice_vars, mix_vars >>

\* MajimixPa::pause_producer(p): mixer->pause(p); if(this->paused == p) return
PauseProducer(p) ==
    /\ cpc = "idle"
    /\ carg' = PauseCall(NoCall, p, "idle")
    /\ cpc' = PauseEntry(p, "idle")
    /\ UNCHANGED << ring_vars, read_vars, dev_vars, ret >>
    /\ UNCHANGED << conf_vars, obs_vars, voice_vars, mix_vars >>

(* ------------------------ control: return and jump ---------------------- *)
\* the API call op returns val
Return(op, val) ==
    /\ cpc' = "idle"
    /\ carg' = NoCall
    /\ ret' = [op |-> op, val |-> val]

\* the API call in progress goes on at pc with the arguments and locals c
Goto(pc, c) ==
    /\ cpc' = pc
    /\ carg' = c
    /\ UNCHANGED ret

\* a void API call returns
Done ==
    /\ cpc' = "idle"
    /\ carg' = NoCall
    /\ UNCHANGED ret

(* ------------------------ control: play_source -------------------------- *)
\* int source_id = get_source_id(source_handle); if(source_id > 0 && source_id
\* <= sources.size() && sources[source_id-1]) ... else return 0
PlaySource(source_handle, loop, pause) ==
    /\ cpc = "idle"
    /\ LET source_id == get_source_id(source_handle)
       IN  IF source_id > 0 /\ source_id <= Len(sources) /\ sources[source_id].present
           THEN Goto("ps_scan", [NoCall EXCEPT !.h = source_handle, !.l = loop,
                                               !.p = pause, !.i = 1])
           ELSE Return("play_source", 0)
    /\ stop_all' = "none"
    /\ UNCHANGED << issued, fade_obs, heard, order >>
    /\ UNCHANGED << ring_vars, read_vars, dev_vars, conf_vars, voice_vars, mix_vars >>

\* PlaySourceScan claiming the voice it is at whether it is active or not
PlaySourceScanAny ==
    /\ cpc = "ps_scan"
    /\ IF carg.i > Len(mixer_channels)
       THEN Return("play_source", 0)
       ELSE Goto("ps_sample", carg)
    /\ UNCHANGED << ring_vars, read_vars, dev_vars, conf_vars, obs_vars, voice_vars, mix_vars >>

\* for(auto& mix_channel : mixer_channels) { ++pid; if(!mix_channel->active) ...
\* } return 0
PlaySourceScan ==
    /\ cpc = "ps_scan"
    /\ IF carg.i > Len(mixer_channels)
       THEN Return("play_source", 0)
       ELSE IF ~mixer_channels[carg.i].active
            THEN Goto("ps_sample", carg)
            ELSE Goto("ps_scan", [carg EXCEPT !.i = @ + 1])
    /\ UNCHANGED << ring_vars, read_vars, dev_vars, conf_vars, obs_vars, voice_vars, mix_vars >>

\* SamplePCM::seek(0): if(source && pos < source->size && pos >= 0) sample_idx = pos
seek0(sample) ==
    IF sample.src # 0 /\ 0 < size(sources[sample.src])
    THEN [sample EXCEPT !.pos = 0] ELSE sample

\* if(sid != source_id) { sid = source_id; sample = create_sample(); }
\* else sample->seek(0);
PlaySourceSample ==
    /\ cpc = "ps_sample"
    /\ LET source_id == get_source_id(carg.h)
           ch == mixer_channels[carg.i]
       IN  mixer_channels' =
              IF ch.sid # source_id
              THEN [mixer_channels EXCEPT ![carg.i].sid = source_id,
                                          ![carg.i].sample = create_sample(source_id)]
              ELSE [mixer_channels EXCEPT ![carg.i].sample = seek0(ch.sample)]
    /\ heard' = Replay(heard, carg.i)
    /\ UNCHANGED order
    /\ Goto("ps_flags", carg)
    /\ UNCHANGED << ring_vars, read_vars, dev_vars, conf_vars, mix_vars >>
    /\ UNCHANGED << stop_all, issued, fade_obs >>
    /\ UNCHANGED << master_volume, sources, kss_cartridges >>

\* stopped = false; loop = loop; paused = paused
PlaySourceFlags ==
    /\ cpc = "ps_flags"
    /\ mixer_channels' = [mixer_channels EXCEPT ![carg.i].stopped = FALSE,
                                                ![carg.i].loop = carg.l,
                                                ![carg.i].paused = carg.p]
    /\ Goto("ps_activate", carg)
    /\ UNCHANGED << ring_vars, read_vars, dev_vars, conf_vars, obs_vars, mix_vars >>
    /\ UNCHANGED << master_volume, sources, kss_cartridges >>

\* active = true; return get_handle(source_id, pid)
PlaySourceActivate ==
    /\ cpc = "ps_activate"
    /\ mixer_channels' = [mixer_channels EXCEPT ![carg.i].active = TRUE]
    /\ Return("play_source", get_handle(get_source_id(carg.h), carg.i))
    /\ UNCHANGED << ring_vars, read_vars, dev_vars, conf_vars, obs_vars, mix_vars >>
    /\ UNCHANGED << master_volume, sources, kss_cartridges >>

(* ------------------------ control: stop_playback ------------------------ *)
\* a lookup that accepts any line index of a cartridge that is present
get_cartrigde_any_line(kss_handle, need_line) ==
    LET idx == get_untyped_source_id(kss_handle)
    IN  /\ get_source_type(kss_handle) = 1
        /\ idx # 0
        /\ idx <= Len(kss_cartridges)
        /\ kss_cartridges[idx].present

\* get_cartrigde_and_line(kss_handle, need_line, cartridge, line_id)
get_cartrigde_and_line(kss_handle, need_line) ==
    LET idx == get_untyped_source_id(kss_handle)
        line_id == get_channel_id(kss_handle)
    IN  /\ get_source_type(kss_handle) = 1
        /\ idx # 0
        /\ idx <= Len(kss_cartridges)
        /\ kss_cartridges[idx].present
        /\ (~need_line \/ (line_id > 0 /\ line_id <= Len(kss_cartridges[idx].m_lines)))

\* vector::operator[] of mixer_channels[channel_id - 1]: the voice index the
\* access reaches.  An index past the end is undefined: the access may reach
\* no voice at all (0) or the memory of any voice.
VoiceAt(channel_id) ==
    IF channel_id <= Len(mixer_channels)
    THEN { channel_id }
    ELSE 0..Len(mixer_channels)

\* StopAllVoice without the store of the stopped flag
StopAllVoiceKeep(ch) ==
    IF ch.active
    THEN IF ~m_stream
         THEN [ch EXCEPT !.paused = FALSE, !.loop = FALSE, !.active = FALSE]
         ELSE [ch EXCEPT !.paused = FALSE]
    ELSE ch

\* stop_playback on one voice of the stop-all loop
StopAllVoice(ch) ==
    IF ch.active
    THEN IF ~m_stream
         THEN [ch EXCEPT !.stopped = TRUE, !.paused = FALSE, !.loop = FALSE,
                         !.active = FALSE]
         ELSE [ch EXCEPT !.stopped = TRUE, !.paused = FALSE]
    ELSE ch

\* StopVoice without the test of the source id
StopVoiceAnySid(ch, source_id) ==
    IF ch.active
    THEN IF ~m_stream
         THEN [ch EXCEPT !.stopped = TRUE, !.active = FALSE]
         ELSE [ch EXCEPT !.stopped = TRUE]
    ELSE ch

\* if(channel->active && source_id == channel->sid) { stopped = true;
\* if(!m_stream) active = false; }
StopVoice(ch, source_id) ==
    IF ch.active /\ source_id = ch.sid
    THEN IF ~m_stream
         THEN [ch EXCEPT !.stopped = TRUE, !.active = FALSE]
         ELSE [ch EXCEPT !.stopped = TRUE]
    ELSE ch

\* entry of stop_playback(play_handle): the branch taken
StopPlayback(play_handle) ==
    /\ cpc = "idle"
    /\ LET c == [NoCall EXCEPT !.h = play_handle, !.i = 1, !.j = 1]
           is_sample == get_channel_id(play_handle) # 0
       IN  IF play_handle = 0
           THEN Goto("sp_voice", c)
           ELSE IF get_source_type(play_handle) = 1
           THEN IF get_cartrigde_and_line(play_handle, is_sample)
                THEN Goto(IF is_sample THEN "sp_line" ELSE "sp_lines",
                          [c EXCEPT !.i = get_untyped_source_id(play_handle)])
                ELSE Done
           ELSE IF get_source_id(play_handle) = 0
           THEN Done
           ELSE Goto(IF is_sample THEN "sp_one" ELSE "sp_voice", c)
    /\ UNCHANGED << ring_vars, read_vars, dev_vars, conf_vars, obs_vars, voice_vars, mix_vars >>

\* one pass of for(auto &channel : mixer_channels) of stop_playback: the
\* stop-all loop (handle 0) or the loop of a source handle; after the last
\* voice the stop-all goes on with the cartridges
StopPlaybackVoice ==
    /\ cpc = "sp_voice"
    /\ IF carg.i > Len(mixer_channels)
       THEN /\ UNCHANGED mixer_channels
            /\ IF carg.h = 0 THEN Goto("sp_lines", [carg EXCEPT !.i = 1, !.act = TRUE])
               ELSE Done
       ELSE /\ mixer_channels' =
                 [mixer_channels EXCEPT ![carg.i] =
                     IF carg.h = 0 THEN StopAllVoice(@)
                     ELSE StopVoice(@, get_source_id(carg.h))]
            /\ Goto("sp_voice", [carg EXCEPT !.i = @ + 1])
    /\ UNCHANGED << ring_vars, read_vars, dev_vars, conf_vars, obs_vars, mix_vars >>
    /\ UNCHANGED << master_volume, sources, kss_cartridges >>

\* auto &channel = mixer_channels[channel_id - 1]; if(channel->active && ...)
StopPlaybackOne ==
    /\ cpc = "sp_one"
    /\ \E v \in VoiceAt(get_channel_id(carg.h)) :
          mixer_channels' =
             IF v = 0 THEN mixer_channels
             ELSE [mixer_channels EXCEPT ![v] = StopVoice(@, get_source_id(carg.h))]
    /\ Done
    /\ UNCHANGED << ring_vars, read_vars, dev_vars, conf_vars, obs_vars, mix_vars >>
    /\ UNCHANGED << master_volume, sources, kss_cartridges >>

\* CartridgeKSS::stop(line_id): m_lines[line_id-1]->active = false
StopLine ==
    /\ cpc = "sp_line"
    /\ kss_cartridges' =
          [kss_cartridges EXCEPT ![carg.i].m_lines[get_channel_id(carg.h)].active = FALSE]
    /\ Done
    /\ UNCHANGED << ring_vars, read_vars, dev_vars, conf_vars, obs_vars, mix_vars >>
    /\ UNCHANGED << master_volume, sources, mixer_channels >>

\* CartridgeKSS::stop_active, one line: if(l->active) l->active = false; for
\* the stop-all (carg.act) over every cartridge that is not empty
StopActiveLine ==
    /\ cpc = "sp_lines"
    /\ IF carg.i > Len(kss_cartridges)
       THEN Done /\ UNCHANGED kss_cartridges
       ELSE IF ~kss_cartridges[carg.i].present
               \/ carg.j > Len(kss_cartridges[carg.i].m_lines)
            THEN /\ UNCHANGED kss_cartridges
                 /\ IF carg.act THEN Goto("sp_lines", [carg EXCEPT !.i = @ + 1, !.j = 1])
                    ELSE Done
            ELSE /\ kss_cartridges' =
                      [kss_cartridges EXCEPT ![carg.i].m_lines[carg.j].active = FALSE]
                 /\ Goto("sp_lines", [carg EXCEPT !.j = @ + 1])
    /\ stop_all' = IF carg.act /\ carg.i > Len(kss_cartridges) /\ stop_all = "none"
                   THEN "returned" ELSE stop_all
    /\ UNCHANGED << issued, fade_obs, heard, order >>
    /\ UNCHANGED << ring_vars, read_vars, dev_vars, conf_vars, mix_vars >>
    /\ UNCHANGED << master_volume, sources, mixer_channels >>

(* ------------- control: play_kss_track and update_kss_track ------------- *)
\* fadeout_ms * m_rate / 1000 stored in an int32_t: m_rate is a uint32_t and
\* the product is computed on 32 bits unsigned; the fades asked here
\* (0..MaxFadeMs ms) keep it far below 2^32
FadeFrames(fadeout_ms) == (fadeout_ms * sampling_rate) \div 1000

\* CartridgeKSS::activate, the stores up to line.id = m_next_mixer++: track
\* is a uint8_t
ActivateFlags(cart, line_id, track, autostop, forcable) ==
    [cart EXCEPT !.m_lines[line_id] =
                     [@ EXCEPT !.autostop = autostop, !.next_track = track % 256,
                               !.pause = FALSE, !.forcable = forcable,
                               !.id = cart.m_next_mixer],
                 !.m_next_mixer = @ + 1]

\* CartridgeKSS::activate, the stores after it: transition_fadeout, then
\* line.active = true
ActivateFade(cart, line_id, fadeout_ms) ==
    [cart EXCEPT !.m_lines[line_id] =
                     [@ EXCEPT !.transition_fadeout =
                                   IF fadeout_ms # 0 THEN FadeFrames(fadeout_ms) ELSE 0,
                               !.active = TRUE]]

\* entry of play_kss_track: kss_cartridge_action without sync and without line
PlayKssTrack(kss_source_handle, track, autostop, forcable, force) ==
    /\ cpc = "idle"
    /\ IF get_cartrigde_and_line(kss_source_handle, FALSE)
       THEN /\ kss_cartridges[get_untyped_source_id(kss_source_handle)].m_next_mixer
                  < MaxActivations
            /\ Goto("al_scan", [NoCall EXCEPT !.h = kss_source_handle,
                                    !.i = get_untyped_source_id(kss_source_handle),
                                    !.j = 1, !.track = track, !.autostop = autostop,
                                    !.forcable = forcable, !.force = force])
       ELSE Return("play_kss_track", 0)
    /\ UNCHANGED << ring_vars, read_vars, dev_vars, conf_vars, obs_vars, voice_vars, mix_vars >>

\* active_line, one line of the loop: if(!l->active) activate(...); after the
\* last line, play_kss_track forces a line if it was asked to
\* (need_reactive = mixer && mixer->is_active(); mixer->pause(true))
ActiveLine ==
    /\ cpc = "al_scan"
    /\ IF carg.j > Len(kss_cartridges[carg.i].m_lines)
       THEN IF carg.force
            THEN LET c == [carg EXCEPT !.act = producer_on /\ ~paused]
                 IN  IF c.act
                     THEN Goto(PauseEntry(TRUE, "fl_scan"), PauseCall(c, TRUE, "fl_scan"))
                     ELSE Goto("fl_scan", c)
            ELSE Return("play_kss_track", 0)
       ELSE IF ~kss_cartridges[carg.i].m_lines[carg.j].active
            THEN Goto("act_flags", carg)
            ELSE Goto("al_scan", [carg EXCEPT !.j = @ + 1])
    /\ UNCHANGED << ring_vars, read_vars, dev_vars, conf_vars, obs_vars, voice_vars, mix_vars >>

\* force_line with any forcable line, whatever its id
ForceLineAny(cart) ==
    LET forc == { k \in 1..Len(cart.m_lines) : cart.m_lines[k].forcable }
    IN  IF forc = {} THEN 0 ELSE CHOOSE k \in forc : \A o \in forc : k >= o

\* force_line, the search: the first of the forcable lines whose id is the
\* smallest, among those with id < m_next_mixer; 0 without one
ForceLine(cart) ==
    LET forc == { k \in 1..Len(cart.m_lines) :
                     cart.m_lines[k].forcable /\ cart.m_lines[k].id < cart.m_next_mixer }
        oldest == { k \in forc : \A o \in forc : cart.m_lines[k].id <= cart.m_lines[o].id }
    IN  IF forc = {} THEN 0 ELSE CHOOSE k \in oldest : \A o \in oldest : k <= o

\* id = cartridge.force_line(...): if(idmin) activate(*m_lines[idmin-1], ...)
ForceLineScan ==
    /\ cpc = "fl_scan"
    /\ LET idmin == ForceLine(kss_cartridges[carg.i])
       IN  IF idmin # 0
           THEN Goto("act_flags", [carg EXCEPT !.j = idmin])
           ELSE Goto("act_resume", [carg EXCEPT !.j = 0])
    /\ UNCHANGED << ring_vars, read_vars, dev_vars, conf_vars, obs_vars, voice_vars, mix_vars >>

\* entry of update_kss_track: kss_cartridge_action with sync and with line
UpdateKssTrack(kss_handle, new_track, autostop, forcable, fade_out_ms) ==
    /\ cpc = "idle"
    /\ IF get_cartrigde_and_line(kss_handle, TRUE)
       THEN /\ kss_cartridges[get_untyped_source_id(kss_handle)].m_next_mixer
                  < MaxActivations
            /\ LET c == [NoCall EXCEPT !.h = kss_handle, !.update = TRUE,
                             !.i = get_untyped_source_id(kss_handle),
                             !.j = get_channel_id(kss_handle),
                             !.track = new_track, !.autostop = autostop,
                             !.forcable = forcable, !.fade_out_ms = fade_out_ms,
                             !.act = producer_on /\ ~paused]
               IN  IF c.act
                   THEN Goto(PauseEntry(TRUE, "act_flags"), PauseCall(c, TRUE, "act_flags"))
                   ELSE Goto("act_flags", c)
       ELSE Return("update_kss_track", FALSE)
    /\ UNCHANGED << ring_vars, read_vars, dev_vars, conf_vars, obs_vars, voice_vars, mix_vars >>

\* the observer after an activation of line carg.j: a faded change of track
\* asked by update_kss_track is observed from here, any other activation of
\* the observed line ends the observation
Observed(obs) ==
    IF carg.update /\ carg.track % 256 # 0 /\ carg.fade_out_ms # 0
    THEN [cart |-> carg.i, line |-> carg.j, need |-> FadeFrames(carg.fade_out_ms),
          got |-> 0]
    ELSE IF obs.cart = carg.i /\ obs.line = carg.j THEN NoFade ELSE obs

\* activate: autostop, next_track, pause, forcable and id are stored
ActivateStores ==
    /\ cpc = "act_flags"
    /\ kss_cartridges' =
          [kss_cartridges EXCEPT ![carg.i] =
              ActivateFlags(@, carg.j, carg.track, carg.autostop, carg.forcable)]
    /\ fade_obs' = Observed(fade_obs)
    /\ Goto("act_fade", carg)
    /\ UNCHANGED << ring_vars, read_vars, dev_vars, conf_vars, stop_all, issued, heard, order,
                    mix_vars >>
    /\ UNCHANGED << master_volume, sources, mixer_channels >>

\* activate: transition_fadeout and KSSPLAY_fade_start, then active = true
ActivateActive ==
    /\ cpc = "act_fade"
    /\ kss_cartridges' =
          [kss_cartridges EXCEPT ![carg.i] = ActivateFade(@, carg.j, carg.fade_out_ms)]
    /\ Goto("act_resume", carg)
    /\ UNCHANGED << ring_vars, read_vars, dev_vars, conf_vars, obs_vars, mix_vars >>
    /\ UNCHANGED << master_volume, sources, mixer_channels >>

\* a call that leaves the producer as it paused it
ActivateNoResume ==
    /\ cpc = "act_resume"
    /\ Goto("act_ret", carg)
    /\ UNCHANGED << ring_vars, read_vars, dev_vars, conf_vars, obs_vars, voice_vars, mix_vars >>

\* if(need_reactive) mixer->pause(false)
ActivateResume ==
    /\ cpc = "act_resume"
    /\ IF carg.act
       THEN Goto(PauseEntry(FALSE, "act_ret"), PauseCall(carg, FALSE, "act_ret"))
       ELSE Goto("act_ret", carg)
    /\ UNCHANGED << ring_vars, read_vars, dev_vars, conf_vars, obs_vars, voice_vars, mix_vars >>

\* update_kss_track returns true; play_kss_track returns the play handle of
\* the line found, 0 without one
ActivateReturn ==
    /\ cpc = "act_ret"
    /\ IF carg.update THEN Return("update_kss_track", TRUE)
       ELSE Return("play_kss_track",
                   IF carg.j # 0 THEN get_handle(carg.h, carg.j) ELSE 0)
    /\ UNCHANGED << ring_vars, read_vars, dev_vars, conf_vars, obs_vars, voice_vars, mix_vars >>

(* ------------- control: update_kss_volume, update_kss_frequency --------- *)
\* CartridgeKSS::set_line_volume
set_line_volume(cart, line_id, volume) ==
    [cart EXCEPT !.m_lines[line_id].master_volume = volume]

\* CartridgeKSS::set_master_volume
set_master_volume(cart, volume) ==
    [cart EXCEPT !.m_master_volume = volume,
                 !.m_lines = [k \in 1..Len(cart.m_lines) |->
                                 [cart.m_lines[k] EXCEPT !.master_volume = volume]]]

\* CartridgeKSS::set_kss_line_frequency
set_kss_line_frequency(cart, line_id, frequency) ==
    [cart EXCEPT !.m_lines[line_id].vsync_freq = frequency]

\* CartridgeKSS::set_kss_frequency
set_kss_frequency(cart, frequency) ==
    [cart EXCEPT !.m_lines = [k \in 1..Len(cart.m_lines) |->
                                 [cart.m_lines[k] EXCEPT !.vsync_freq = frequency]]]

\* entry of update_kss_volume: kss_cartridge_action with sync, with a line
\* where the handle names one
UpdateKssVolume(kss_handle, volume) ==
    /\ cpc = "idle"
    /\ LET is_sample == get_channel_id(kss_handle) # 0
           c == [NoCall EXCEPT !.h = kss_handle, !.value = volume,
                               !.i = get_untyped_source_id(kss_handle),
                               !.j = get_channel_id(kss_handle),
                               !.act = producer_on /\ ~paused]
       IN  IF get_cartrigde_and_line(kss_handle, is_sample)
           THEN IF c.act
                THEN Goto(PauseEntry(TRUE, "kv_set"), PauseCall(c, TRUE, "kv_set"))
                ELSE Goto("kv_set", c)
           ELSE Return("update_kss_volume", FALSE)
    /\ UNCHANGED << ring_vars, read_vars, dev_vars, conf_vars, obs_vars, voice_vars, mix_vars >>

\* fn_action of update_kss_volume, then if(need_reactive) mixer->pause(false)
KssVolumeSet ==
    /\ cpc = "kv_set"
    /\ kss_cartridges' =
          [kss_cartridges EXCEPT ![carg.i] =
              IF carg.j # 0 THEN set_line_volume(@, carg.j, carg.value)
              ELSE set_master_volume(@, carg.value)]
    /\ IF carg.act
       THEN Goto(PauseEntry(FALSE, "kv_ret"), PauseCall(carg, FALSE, "kv_ret"))
       ELSE Goto("kv_ret", carg)
    /\ UNCHANGED << ring_vars, read_vars, dev_vars, conf_vars, obs_vars, mix_vars >>
    /\ UNCHANGED << master_volume, sources, mixer_channels >>

\* return ret_val
KssVolumeReturn ==
    /\ cpc = "kv_ret"
    /\ Return("update_kss_volume", TRUE)
    /\ UNCHANGED << ring_vars, read_vars, dev_vars, conf_vars, obs_vars, voice_vars, mix_vars >>

\* entry of update_kss_frequency: kss_cartridge_action with sync for a
\* handle, every cartridge for the handle 0
UpdateKssFrequency(kss_handle, frequency) ==
    /\ cpc = "idle"
    /\ LET is_sample == get_channel_id(kss_handle) # 0
           c == [NoCall EXCEPT !.h = kss_handle, !.value = frequency,
                               !.i = get_untyped_source_id(kss_handle),
                               !.j = get_channel_id(kss_handle),
                               !.act = producer_on /\ ~paused]
       IN  IF kss_handle = 0 \/ get_cartrigde_and_line(kss_handle, is_sample)
           THEN IF c.act
                THEN Goto(PauseEntry(TRUE, "kf_set"), PauseCall(c, TRUE, "kf_set"))
                ELSE Goto("kf_set", c)
           ELSE Return("update_kss_frequency", FALSE)
    /\ UNCHANGED << ring_vars, read_vars, dev_vars, conf_vars, obs_vars, voice_vars, mix_vars >>

\* fn_action of update_kss_frequency, or the loop over the cartridges for
\* the handle 0, then if(need_reactive) mixer->pause(false)
KssFrequencySet ==
    /\ cpc = "kf_set"
    /\ kss_cartridges' =
          IF carg.h = 0
          THEN [k \in 1..Len(kss_cartridges) |->
                   IF kss_cartridges[k].present
                   THEN set_kss_frequency(kss_cartridges[k], carg.value)
                   ELSE kss_cartridges[k]]
          ELSE [kss_cartridges EXCEPT ![carg.i] =
                   IF carg.j # 0 THEN set_kss_line_frequency(@, carg.j, carg.value)
                   ELSE set_kss_frequency(@, carg.value)]
    /\ IF carg.act
       THEN Goto(PauseEntry(FALSE, "kf_ret"), PauseCall(carg, FALSE, "kf_ret"))
       ELSE Goto("kf_ret", carg)
    /\ UNCHANGED << ring_vars, read_vars, dev_vars, conf_vars, obs_vars, mix_vars >>
    /\ UNCHANGED << master_volume, sources, mixer_channels >>

\* return ret_val, return true
KssFrequencyReturn ==
    /\ cpc = "kf_ret"
    /\ Return("update_kss_frequency", TRUE)
    /\ UNCHANGED << ring_vars, read_vars, dev_vars, conf_vars, obs_vars, voice_vars, mix_vars >>

(* -------------------- control: pause_resume_playback -------------------- *)
\* if(channel->active && source_id == channel->sid) channel->paused = pause
PauseVoice(ch, source_id, pause) ==
    IF ch.active /\ source_id = ch.sid THEN [ch EXCEPT !.paused = pause] ELSE ch

\* the pause-all loop: if(channel->active) channel->paused = pause
PauseAllVoice(ch, pause) ==
    IF ch.active THEN [ch EXCEPT !.paused = pause] ELSE ch

\* entry of pause_resume_playback(play_handle, pause): the branch taken
PauseResumePlayback(play_handle, pause) ==
    /\ cpc = "idle"
    /\ LET c == [NoCall EXCEPT !.h = play_handle, !.p = pause, !.i = 1, !.j = 1]
           is_sample == get_channel_id(play_handle) # 0
       IN  IF play_handle = 0
           THEN Goto("pr_voice", c)
           ELSE IF get_source_type(play_handle) = 1
           THEN IF get_cartrigde_and_line(play_handle, is_sample)
                THEN Goto(IF is_sample THEN "pr_line" ELSE "pr_lines",
                          [c EXCEPT !.i = get_untyped_source_id(play_handle)])
                ELSE Done
           ELSE IF get_source_id(play_handle) = 0
           THEN Done
           ELSE Goto(IF is_sample THEN "pr_one" ELSE "pr_voice", c)
    /\ UNCHANGED << ring_vars, read_vars, dev_vars, conf_vars, obs_vars, voice_vars, mix_vars >>

\* one pass of for(auto &channel : mixer_channels) of pause_resume_playback
PauseResumeVoice ==
    /\ cpc = "pr_voice"
    /\ IF carg.i > Len(mixer_channels)
       THEN /\ UNCHANGED mixer_channels
            /\ IF carg.h = 0 THEN Goto("pr_lines", [carg EXCEPT !.i = 1, !.act = TRUE])
               ELSE Done
       ELSE /\ mixer_channels' =
                 [mixer_channels EXCEPT ![carg.i] =
                     IF carg.h = 0 THEN PauseAllVoice(@, carg.p)
                     ELSE PauseVoice(@, get_source_id(carg.h), carg.p)]
            /\ Goto("pr_voice", [carg EXCEPT !.i = @ + 1])
    /\ UNCHANGED << ring_vars, read_vars, dev_vars, conf_vars, obs_vars, mix_vars >>
    /\ UNCHANGED << master_volume, sources, kss_cartridges >>

\* auto &channel = mixer_channels[channel_id - 1]; if(channel->active && ...)
PauseResumeOne ==
    /\ cpc = "pr_one"
    /\ \E v \in VoiceAt(get_channel_id(carg.h)) :
          mixer_channels' =
             IF v = 0 THEN mixer_channels
             ELSE [mixer_channels EXCEPT ![v] = PauseVoice(@, get_source_id(carg.h), carg.p)]
    /\ Done
    /\ UNCHANGED << ring_vars, read_vars, dev_vars, conf_vars, obs_vars, mix_vars >>
    /\ UNCHANGED << master_volume, sources, kss_cartridges >>

\* CartridgeKSS::set_pause(line_id, pause): m_lines[line_id-1]->pause = pause
SetPauseLine ==
    /\ cpc = "pr_line"
    /\ kss_cartridges' =
          [kss_cartridges EXCEPT ![carg.i].m_lines[get_channel_id(carg.h)].pause = carg.p]
    /\ Done
    /\ UNCHANGED << ring_vars, read_vars, dev_vars, conf_vars, obs_vars, mix_vars >>
    /\ UNCHANGED << master_volume, sources, mixer_channels >>

\* CartridgeKSS::set_pause_active, one line: if(l->active) l->pause = pause
SetPauseActiveLine ==
    /\ cpc = "pr_lines"
    /\ IF carg.i > Len(kss_cartridges)
       THEN Done /\ UNCHANGED kss_cartridges
       ELSE IF ~kss_cartridges[carg.i].present
               \/ carg.j > Len(kss_cartridges[carg.i].m_lines)
            THEN /\ UNCHANGED kss_cartridges
                 /\ IF carg.act THEN Goto("pr_lines", [carg EXCEPT !.i = @ + 1, !.j = 1])
                    ELSE Done
            ELSE /\ kss_cartridges' =
                      [kss_cartridges EXCEPT ![carg.i].m_lines[carg.j].pause =
                          IF kss_cartridges[carg.i].m_lines[carg.j].active
                          THEN carg.p ELSE @]
                 /\ Goto("pr_lines", [carg EXCEPT !.j = @ + 1])
    /\ UNCHANGED << ring_vars, read_vars, dev_vars, conf_vars, obs_vars, mix_vars >>
    /\ UNCHANGED << master_volume, sources, mixer_channels >>

(* --------------------------- control: set_loop -------------------------- *)
\* if(source_id && channel_id) mixer_channels[channel_id-1]->loop = loop
SetLoop(play_handle, loop) ==
    /\ cpc = "idle"
    /\ IF get_source_id(play_handle) # 0 /\ get_channel_id(play_handle) # 0
       THEN \E v \in VoiceAt(get_channel_id(play_handle)) :
               mixer_channels' =
                  IF v = 0 THEN mixer_channels
                  ELSE [mixer_channels EXCEPT ![v].loop = loop]
       ELSE UNCHANGED mixer_channels
    /\ UNCHANGED << ring_vars, read_vars, ctl_vars, dev_vars, conf_vars, obs_vars, mix_vars >>
    /\ UNCHANGED << master_volume, sources, kss_cartridges >>

(* --------------------------- control: set_pause ------------------------- *)
\* if(get_source_type(play_handle) == 1) set_pause_kss(play_handle, pause);
\* else if(source_id && channel_id) mixer_channels[channel_id-1]->paused = pause
SetPause(play_handle, pause) ==
    /\ cpc = "idle"
    /\ LET is_sample == get_channel_id(play_handle) # 0
           c == [NoCall EXCEPT !.h = play_handle, !.p = pause, !.j = 1,
                               !.i = get_untyped_source_id(play_handle)]
       IN  IF get_source_type(play_handle) = 1
           THEN /\ UNCHANGED mixer_channels
                /\ IF get_cartrigde_and_line(play_handle, is_sample)
                   THEN Goto(IF is_sample THEN "pr_line" ELSE "pr_lines", c)
                   ELSE Done
           ELSE /\ Done
                /\ IF get_source_id(play_handle) # 0 /\ is_sample
                   THEN \E v \in VoiceAt(get_channel_id(play_handle)) :
                           mixer_channels' =
                              IF v = 0 THEN mixer_channels
                              ELSE [mixer_channels EXCEPT ![v].paused = pause]
                   ELSE UNCHANGED mixer_channels
    /\ UNCHANGED << ring_vars, read_vars, dev_vars, conf_vars, obs_vars, mix_vars >>
    /\ UNCHANGED << master_volume, sources, kss_cartridges >>

(* --------------------------- control: add_source ------------------------ *)
\* the two bytes of a 16 bit value in a data chunk, little endian
le16(v) == << v % 256, (v \div 256) % 256 >>
\* a 16 bit PCM file of the given channels whose data chunk holds values, one
\* per frame and channel
Wave16(values, nch) ==
    [channels |-> nch,
     pcm |-> [k \in 1..(2 * Len(values)) |-> le16(values[((k - 1) \div 2) + 1])[((k - 1) % 2) + 1]]]
\* the values of the stereo file ToneFile: the frames alternate between
\* 0x1234 and -0x1234 on both channels
ToneValues ==
    [k \in 1..(2 * ToneFrames) |-> IF ((k - 1) \div 2) % 2 = 0 THEN 4660 ELSE 0 - 4660]
\* the values of the mono file RampFile: every frame has its own value
RampValues == [k \in 1..RampFrames |-> k * Ramp]
\* the values of the mono files HighFile and LowFile: one constant each
ConstValues(name) == [k \in 1..ConstFrames |-> IF name = HighFile THEN 8000 ELSE 4000]
\* the values of the files 1..MaxFiles, mono, of SourceFrames frames: the
\* files differ in their audio
PlainValues(name) == [k \in 1..SourceFrames |-> PcmFrame * name]
\* load_wave(name, source): the file called name
WaveFile(name) ==
    IF name = ToneFile THEN Wave16(ToneValues, 2)
    ELSE IF name = RampFile THEN Wave16(RampValues, 1)
    ELSE IF name \in {HighFile, LowFile} THEN Wave16(ConstValues(name), 1)
    ELSE Wave16(PlainValues(name), 1)

\* the slot add_source puts a source in: the first empty slot of sources, or
\* a new slot at the end
FreeSlot ==
    IF \E s \in 1..Len(sources) : ~sources[s].present
    THEN CHOOSE s \in 1..Len(sources) :
            /\ ~sources[s].present
            /\ \A t \in 1..(s - 1) : sources[t].present
    ELSE Len(sources) + 1

\* add_source(name): the file 0 is neither a wave nor a Vorbis file and 0 is
\* returned; else the source is stored in FreeSlot and its id is returned.
\* The table is not let grow past cap slots.
AddSourceUpTo(name, cap) ==
    /\ cpc = "idle"
    /\ \E slot \in {FreeSlot} :
          /\ name # 0 => slot <= cap
          /\ IF name = 0
             THEN /\ UNCHANGED << sources, issued >>
                  /\ Return("add_source", 0)
             ELSE /\ sources' = [s \in 1..(IF slot > Len(sources) THEN slot
                                           ELSE Len(sources)) |->
                                    IF s = slot THEN SourcePCM(WaveFile(name))
                                    ELSE sources[s]]
                  /\ issued' = issued \cup { << slot, name >> }
                  /\ Return("add_source", slot)
    /\ UNCHANGED << ring_vars, read_vars, dev_vars, conf_vars, stop_all, fade_obs, heard, order,
                    mix_vars >>
    /\ UNCHANGED << master_volume, mixer_channels, kss_cartridges >>

\* add_source on a table of at most MaxSources slots
AddSource(name) == AddSourceUpTo(name, MaxSources)

(* ------------------------- control: add_source_kss ---------------------- *)
\* the slot add_source_kss puts a cartridge in: the first empty slot of
\* kss_cartridges, or a new slot at the end
FreeCartridge ==
    IF \E c \in 1..Len(kss_cartridges) : ~kss_cartridges[c].present
    THEN CHOOSE c \in 1..Len(kss_cartridges) :
            /\ ~kss_cartridges[c].present
            /\ \A t \in 1..(c - 1) : kss_cartridges[t].present
    ELSE Len(kss_cartridges) + 1

\* entry of add_source_kss(name, lines): if(lines <= 0) return -1; the file 0
\* is no KSS file, load_kss returns null and -1 is returned; else the
\* cartridge is made (m_lines_count is a uint8_t) and the producer is paused
\* if it runs.  The table is not let grow past MaxCartridges slots.
AddSourceKss(name, lines) ==
    /\ cpc = "idle"
    /\ IF lines <= 0 \/ name = 0
       THEN Return("add_source_kss", -1)
       ELSE /\ FreeCartridge <= MaxCartridges
            /\ LET c == [NoCall EXCEPT !.h = name, !.i = lines % 256,
                                       !.act = producer_on /\ ~paused]
               IN  IF c.act
                   THEN Goto(PauseEntry(TRUE, "ak_insert"), PauseCall(c, TRUE, "ak_insert"))
                   ELSE Goto("ak_insert", c)
    /\ UNCHANGED << ring_vars, read_vars, dev_vars, conf_vars, obs_vars, voice_vars, mix_vars >>

\* the cartridge goes to the first empty slot or to a new one; then
\* if(need_resume) mixer->pause(false)
AddSourceKssInsert ==
    /\ cpc = "ak_insert"
    /\ kss_cartridges' =
          [c \in 1..(IF FreeCartridge > Len(kss_cartridges) THEN FreeCartridge
                     ELSE Len(kss_cartridges)) |->
              IF c = FreeCartridge THEN CartridgeKSS(carg.i) ELSE kss_cartridges[c]]
    /\ LET c == [carg EXCEPT !.j = FreeCartridge]
       IN  IF carg.act
           THEN Goto(PauseEntry(FALSE, "ak_ret"), PauseCall(c, FALSE, "ak_ret"))
           ELSE Goto("ak_ret", c)
    /\ UNCHANGED << ring_vars, read_vars, dev_vars, conf_vars, obs_vars, mix_vars >>
    /\ UNCHANGED << master_volume, sources, mixer_channels >>

\* return get_kss_source_id(id)
AddSourceKssReturn ==
    /\ cpc = "ak_ret"
    /\ issued' = issued \cup { << get_kss_source_id(carg.j), carg.h >> }
    /\ Return("add_source_kss", get_kss_source_id(carg.j))
    /\ UNCHANGED << ring_vars, read_vars, dev_vars, conf_vars, stop_all, fade_obs, heard, order >>
    /\ UNCHANGED << voice_vars, mix_vars >>

(* -------------------------- control: drop_source ------------------------ *)
\* the first statement of the body of drop_source after the optional pause
DropBody(source_handle) ==
    IF source_handle = 0
       \/ (get_source_id(source_handle) > 0 /\ get_source_type(source_handle) = 0)
    THEN "ds_voice" ELSE "ds_reset"

\* bool active = mixer && mixer->is_active(); if(active) mixer->pause(true);
DropSource(source_handle) ==
    /\ cpc = "idle"
    /\ LET active == producer_on /\ ~paused
           c == [NoCall EXCEPT !.h = source_handle, !.i = 1, !.act = active]
       IN  IF active
           THEN Goto(PauseEntry(TRUE, DropBody(source_handle)),
                     PauseCall(c, TRUE, DropBody(source_handle)))
           ELSE Goto(DropBody(source_handle), c)
    /\ UNCHANGED << ring_vars, read_vars, dev_vars, conf_vars, obs_vars, voice_vars, mix_vars >>

\* DropVoice without sample.reset() and sid = 0
DropVoiceKeepSample(ch) ==
    [ch EXCEPT !.active = FALSE, !.paused = FALSE, !.loop = FALSE]

\* the voice of drop_source: active = false; paused = false; loop = false;
\* sample.reset(); sid = 0
DropVoice(ch) ==
    [ch EXCEPT !.active = FALSE, !.paused = FALSE, !.loop = FALSE,
               !.sample = NoSample, !.sid = 0]

\* DropSourceVoice without the test of the voice's sid
DropSourceVoiceAll ==
    /\ cpc = "ds_voice"
    /\ IF carg.i > Len(mixer_channels)
       THEN /\ UNCHANGED mixer_channels
            /\ Goto("ds_reset", carg)
       ELSE /\ mixer_channels' = [mixer_channels EXCEPT ![carg.i] = DropVoice(@)]
            /\ Goto("ds_voice", [carg EXCEPT !.i = @ + 1])
    /\ UNCHANGED << ring_vars, read_vars, dev_vars, conf_vars, obs_vars, mix_vars >>
    /\ UNCHANGED << master_volume, sources, kss_cartridges >>

\* one pass of for(auto &mix_channel : mixer_channels) of drop_source: every
\* voice for handle 0, else the voices whose sid is the source id
DropSourceVoice ==
    /\ cpc = "ds_voice"
    /\ IF carg.i > Len(mixer_channels)
       THEN /\ UNCHANGED mixer_channels
            /\ Goto("ds_reset", carg)
       ELSE /\ mixer_channels' =
                 [mixer_channels EXCEPT ![carg.i] =
                     IF carg.h = 0 \/ @.sid = get_source_id(carg.h)
                     THEN DropVoice(@) ELSE @]
            /\ Goto("ds_voice", [carg EXCEPT !.i = @ + 1])
    /\ UNCHANGED << ring_vars, read_vars, dev_vars, conf_vars, obs_vars, mix_vars >>
    /\ UNCHANGED << master_volume, sources, kss_cartridges >>

\* the value drop_source returns
Dropped(source_handle) ==
    \/ source_handle = 0
    \/ /\ get_source_id(source_handle) > 0
       /\ \/ /\ get_source_type(source_handle) = 0
             /\ get_untyped_source_id(source_handle) <= Len(sources)
          \/ /\ get_source_type(source_handle) = 1
             /\ get_untyped_source_id(source_handle) <= Len(kss_cartridges)

\* the sources and the cartridges are reset; if(active) mixer->pause(false);
\* return dropped
DropSourceReset ==
    /\ cpc = "ds_reset"
    /\ LET untyped == get_untyped_source_id(carg.h)
           type == get_source_type(carg.h)
       IN  /\ sources' =
                IF carg.h = 0 THEN [s \in 1..Len(sources) |-> NoSource]
                ELSE IF Dropped(carg.h) /\ type = 0
                THEN [sources EXCEPT ![untyped] = NoSource]
                ELSE sources
           /\ kss_cartridges' =
                IF carg.h = 0 THEN [k \in 1..Len(kss_cartridges) |-> NoCartridge]
                ELSE IF Dropped(carg.h) /\ type = 1 /\ untyped > 0
                THEN [kss_cartridges EXCEPT ![untyped] = NoCartridge]
                ELSE kss_cartridges
    /\ ret' = [op |-> "drop_source", val |-> Dropped(carg.h)]
    /\ IF carg.act
       THEN /\ cpc' = PauseEntry(FALSE, "idle")
            /\ carg' = PauseCall(carg, FALSE, "idle")
       ELSE /\ cpc' = "idle"
            /\ carg' = NoCall
    /\ UNCHANGED << ring_vars, read_vars, dev_vars, conf_vars, obs_vars, mix_vars >>
    /\ UNCHANGED << master_volume, mixer_channels >>

(* --------- control: set_format and set_mixer_buffer_parameters ---------- *)
\* the call in progress is left by the exception exc: nothing is returned
Throw(exc) ==
    /\ cpc' = "idle"
    /\ carg' = NoCall
    /\ ret' = [op |-> exc, val |-> 0]

\* a / b of two int, b # 0: the quotient is truncated towards zero
Quot(a, b) ==
    IF b > 0
    THEN IF a >= 0 THEN a \div b ELSE 0 - ((0 - a) \div b)
    ELSE IF a >= 0 THEN 0 - (a \div (0 - b)) ELSE (0 - a) \div (0 - b)

\* BufferedMixer::get_buffer_count()
get_buffer_count ==
    IF buffer_packet_size # 0 THEN Quot(buffer_total_size, buffer_packet_size) ELSE 0

\* The body of set_mixer_buffer_parameters(buffer_count, buffer_sample_size)
\* once m_stream is known to be null, for the API call op and the output format
\* of ch channels of b bits:
\*   mixer = std::make_unique<BufferedMixer>(buffer_count, buffer_sample_size,
\*                                           channels * (bits >> 3));
\*   internal_sample_buffer.assign(frames * channels, 0);
\*   internal_mix_buffer.assign(frames * channels, 0);
\*   mixer->set_mixer_function(...); return true;
\* vector::assign with a negative size throws std::length_error: in the
\* constructor of BufferedMixer (buffer.assign(buffer_total_size, 0)) mixer
\* keeps the instance it had; in the scratch buffers the new instance is
\* already in place, without its mix function.
NewBufferedMixer(op, buffer_count, buffer_sample_size, ch, b) ==
    LET ss == ch * (b \div 8)
        packet == buffer_sample_size * ss
        total == buffer_count * buffer_sample_size * ss
        slots == IF packet > 0 THEN total \div packet ELSE 0
        scratch == buffer_sample_size * ch
    IN  IF total < 0
        THEN /\ Throw("std::length_error")
             /\ UNCHANGED << ring_vars, mixer, buffer_packet_sample_size, sample_size,
                             buffer_total_size, internal_sample_buffer,
                             internal_mix_buffer >>
        ELSE /\ buffer_packet_sample_size' = buffer_sample_size
             /\ sample_size' = ss
             /\ buffer_total_size' = total
             /\ read_position' = 0
             /\ read_inrange_index' = 0
             /\ write_position' = 0
             /\ producer_on' = FALSE
             /\ paused' = FALSE
             /\ buffer' = [i \in 1..slots |-> "zero"]
             /\ m' = "none"
             /\ ppc' = "off"
             /\ next' = 0
             /\ IF scratch < 0
                THEN /\ mixer' = "made"
                     /\ UNCHANGED << internal_sample_buffer, internal_mix_buffer >>
                     /\ Throw("std::length_error")
                ELSE /\ mixer' = "bound"
                     /\ internal_sample_buffer' = [k \in 1..scratch |-> 0]
                     /\ internal_mix_buffer' = [k \in 1..scratch |-> 0]
                     /\ Return(op, TRUE)

\* SetMixerBufferParameters without the test of m_stream
SetMixerBufferParametersOpen(buffer_count, buffer_sample_size) ==
    /\ cpc = "idle"
    /\ NewBufferedMixer("set_mixer_buffer_parameters", buffer_count,
                        buffer_sample_size, channels, bits)
    /\ UNCHANGED << sampling_rate, channels, bits, pv, pl, sample_count, deactivate >>
    /\ UNCHANGED << read_vars, dev_vars, obs_vars, voice_vars >>

\* set_mixer_buffer_parameters(buffer_count, buffer_sample_size):
\* if(m_stream) return false; ...
SetMixerBufferParameters(buffer_count, buffer_sample_size) ==
    /\ cpc = "idle"
    /\ IF m_stream
       THEN /\ Return("set_mixer_buffer_parameters", FALSE)
            /\ UNCHANGED << ring_vars, mixer, buffer_packet_sample_size, sample_size,
                            buffer_total_size, internal_sample_buffer,
                            internal_mix_buffer >>
       ELSE NewBufferedMixer("set_mixer_buffer_parameters", buffer_count,
                             buffer_sample_size, channels, bits)
    /\ UNCHANGED << sampling_rate, channels, bits, pv, pl, sample_count, deactivate >>
    /\ UNCHANGED << read_vars, dev_vars, obs_vars, voice_vars >>

\* the accepted branch of set_format: sampling_rate = rate; channels = stereo
\* ? 2 : 1; this->bits = bits; the voices are replaced by channel_count new
\* MixerChannel; int buffer_count = 5; int buffer_sample_size = 100 * rate /
\* buffer_count / 1000; if(mixer) { the count and the frames of the mixer in
\* place are taken instead } return set_mixer_buffer_parameters(buffer_count,
\* buffer_sample_size)
FormatAccepted(rate, stereo, out_bits, channel_count) ==
    /\ sampling_rate' = rate
    /\ channels' = IF stereo THEN 2 ELSE 1
    /\ bits' = out_bits
    /\ mixer_channels' = [v \in 1..channel_count |-> MixerChannel]
    /\ IF mixer # "null"
       THEN NewBufferedMixer("set_format", get_buffer_count,
                             buffer_packet_sample_size, channels', out_bits)
       ELSE NewBufferedMixer("set_format", 5, ((100 * rate) \div 5) \div 1000,
                             channels', out_bits)

\* the refused branch of set_format: return false
FormatRefused ==
    /\ Return("set_format", FALSE)
    /\ UNCHANGED << ring_vars, conf_vars, mixer_channels,
                    internal_sample_buffer, internal_mix_buffer >>

\* SetFormat without the test of the bits
SetFormatAnyBits(rate, stereo, out_bits, channel_count) ==
    /\ cpc = "idle"
    /\ IF ~m_stream /\ rate >= MinRate /\ rate <= MaxRate
       THEN FormatAccepted(rate, stereo, out_bits, channel_count)
       ELSE FormatRefused
    /\ UNCHANGED << pv, pl, sample_count, deactivate, master_volume, sources, kss_cartridges >>
    /\ UNCHANGED << read_vars, dev_vars, obs_vars >>

\* set_format(rate, stereo, bits, channel_count): if(!m_stream) if(rate >=
\* 8000 && rate <= 96000 && (bits == 16 || bits == 24)) { ... } return false
SetFormat(rate, stereo, out_bits, channel_count) ==
    /\ cpc = "idle"
    /\ IF ~m_stream /\ rate >= MinRate /\ rate <= MaxRate /\ out_bits \in {16, 24}
       THEN FormatAccepted(rate, stereo, out_bits, channel_count)
       ELSE FormatRefused
    /\ UNCHANGED << pv, pl, sample_count, deactivate, master_volume, sources, kss_cartridges >>
    /\ UNCHANGED << read_vars, dev_vars, obs_vars >>

(* ------------------- control: start_stop_mixer -------------------------- *)
\* start_stop_mixer(true): if(!m_stream && mixer) { if(create_stream()) ... }
\* return false.  create_stream may fail; it leaves m_stream null then.
StartCreateStream ==
    /\ cpc = "idle"
    /\ IF ~m_stream /\ mixer # "null"
       THEN \E ok \in BOOLEAN :
               /\ m_stream' = ok
               /\ IF ok THEN cpc' = "start_producer" /\ UNCHANGED << carg, ret >>
                  ELSE Return("start_stop_mixer", FALSE)
       ELSE /\ UNCHANGED m_stream
            /\ Return("start_stop_mixer", FALSE)
    /\ UNCHANGED << ring_vars, read_vars, stream_active >>
    /\ UNCHANGED << conf_vars, obs_vars, voice_vars, mix_vars >>

\* mixer->start(): BufferedMixer::start spawns the producer thread
\* if(!producer_on && mix)
StartProducer ==
    /\ cpc = "start_producer"
    /\ IF ~producer_on /\ mixer = "bound"
       THEN /\ write_position' = 0
            /\ read_position' = 0
            /\ read_inrange_index' = 0
            /\ producer_on' = TRUE
            /\ ppc' = "loop"
            /\ order' = Restarted(order)
       ELSE UNCHANGED << write_position, read_position, read_inrange_index,
                         producer_on, ppc, order >>
    /\ cpc' = "start_playback"
    /\ UNCHANGED << paused, buffer, m, next, carg, ret >>
    /\ UNCHANGED << read_vars, dev_vars >>
    /\ UNCHANGED << stop_all, issued, fade_obs, heard >>
    /\ UNCHANGED << conf_vars, voice_vars, mix_vars >>

\* if(mixer->is_started()) return set_playback(true); return false.
\* set_playback(true) is pause_resume_mixer(false): Pa_StartStream on the
\* stream just opened may fail
StartPlayback ==
    /\ cpc = "start_playback"
    /\ IF producer_on /\ ~stream_active
       THEN \E ok \in BOOLEAN : stream_active' = ok
       ELSE UNCHANGED stream_active
    /\ Return("start_stop_mixer", producer_on /\ stream_active')
    /\ UNCHANGED << ring_vars, read_vars, m_stream >>
    /\ UNCHANGED << conf_vars, obs_vars, voice_vars, mix_vars >>

\* get_mixer_status(): the values it may return.  MixerStopped without a
\* stream; else Pa_IsStreamActive(m_stream) is asked, which may fail
get_mixer_status ==
    IF ~m_stream THEN {"MixerStopped"}
    ELSE {IF stream_active THEN "MixerRunning" ELSE "MixerPaused", "MixerError"}

\* pause_resume_mixer(pause): Pa_StartStream / Pa_StopStream on the open stream;
\* Pa_StopStream returns once the callback is no longer running
PauseResumeMixer(pause) ==
    /\ cpc = "idle"
    /\ m_stream
    /\ IF ~stream_active /\ ~pause
       THEN \E ok \in BOOLEAN : stream_active' = ok
       ELSE IF stream_active /\ pause
            THEN rpc = "idle" /\ stream_active' = FALSE
            ELSE UNCHANGED stream_active
    /\ UNCHANGED << ring_vars, read_vars, ctl_vars, m_stream >>
    /\ UNCHANGED << conf_vars, obs_vars, voice_vars, mix_vars >>

\* start_stop_mixer(false): if(m_stream) { set_playback(false); Pa_CloseStream;
\* m_stream = nullptr; }
StopCloseStream ==
    /\ cpc = "idle"
    /\ m_stream => rpc = "idle"
    /\ m_stream' = FALSE
    /\ stream_active' = FALSE
    /\ cpc' = "stop_producer"
    /\ UNCHANGED << ring_vars, read_vars, carg, ret >>
    /\ UNCHANGED << conf_vars, obs_vars, voice_vars, mix_vars >>

\* a stop that does not wait for the producer thread
StopProducerNoJoin ==
    /\ cpc = "stop_producer"
    /\ producer_on' = FALSE
    /\ Return("start_stop_mixer", TRUE)
    /\ UNCHANGED << read_position, read_inrange_index, write_position, paused, buffer,
                    m, ppc, next >>
    /\ UNCHANGED << read_vars, dev_vars >>
    /\ UNCHANGED << conf_vars, obs_vars, voice_vars, mix_vars >>

\* if(mixer) mixer->stop(): if(producer_on) producer_on = false; else
\* return true
StopProducer ==
    /\ cpc = "stop_producer"
    /\ producer_on' = FALSE
    /\ IF producer_on THEN cpc' = "stop_notify" /\ UNCHANGED << carg, ret >>
       ELSE Return("start_stop_mixer", TRUE)
    /\ UNCHANGED << read_position, read_inrange_index, write_position, paused, buffer,
                    m, ppc, next >>
    /\ UNCHANGED << read_vars, dev_vars >>
    /\ UNCHANGED << conf_vars, obs_vars, voice_vars, mix_vars >>

\* BufferedMixer::stop: cv.notify_one()
StopNotify ==
    /\ cpc = "stop_notify"
    /\ ppc' = NotifyOne(ppc)
    /\ cpc' = "stop_join"
    /\ UNCHANGED << read_position, read_inrange_index, write_position, producer_on,
                    paused, buffer, m, next, carg, ret >>
    /\ UNCHANGED << read_vars, dev_vars >>
    /\ UNCHANGED << conf_vars, obs_vars, voice_vars, mix_vars >>

\* BufferedMixer::stop: producer.join() returns once write() has returned;
\* return true
StopJoin ==
    /\ cpc = "stop_join"
    /\ ppc = "exited"
    /\ ppc' = "off"
    /\ Return("start_stop_mixer", TRUE)
    /\ UNCHANGED << read_position, read_inrange_index, write_position, producer_on,
                    paused, buffer, m, next >>
    /\ UNCHANGED << read_vars, dev_vars >>
    /\ UNCHANGED << conf_vars, obs_vars, voice_vars, mix_vars >>

(* --------------------------- specifications ----------------------------- *)
NextRing ==
    \/ WriteLoop \/ WriteLock \/ MixBegin \/ MixCartridge \/ MixEncode
    \/ WriteUnlock \/ WriteCheck
    \/ WriteWaitLock \/ WritePark \/ SpuriousWake \/ WriteWake \/ WriteWaitUnlock
    \/ WritePublish
    \/ \E n \in 0..MaxRequest : ReadBegin(n)
    \/ ReadCheck \/ ReadCopy
    \/ \E p \in BOOLEAN : PauseProducer(p)
    \/ PauseLock \/ PauseUnlock
    \/ StartCreateStream \/ StartProducer \/ StartPlayback
    \/ \E p \in BOOLEAN : PauseResumeMixer(p)
    \/ StopCloseStream \/ StopProducer \/ StopNotify \/ StopJoin

SpecRing == InitRing /\ [][NextRing]_vars

(* ------------------- the mixer with voices and sources ------------------ *)
\* the line of a cartridge after play_kss_track(h, 1, true, true, false)
PlayingLine == [KSSLine EXCEPT !.active = TRUE, !.autostop = TRUE, !.next_track = 1]

\* the cartridges after add_source_kss and play_kss_track
PlayingCartridges ==
    << [CartridgeKSS(MaxLines) EXCEPT !.m_lines[1] = PlayingLine, !.m_next_mixer = 1] >>

\* the voices of a mixer of nv voices on which no source was played yet
FreeVoices(nv) == [v \in 1..nv |-> MixerChannel]

\* a voice right after play_source(source_id, loop, pause) has claimed it
PlayingVoice(source_id, loop, pause) ==
    [active |-> TRUE, stopped |-> FALSE, paused |-> pause, loop |-> loop,
     sample |-> create_sample(source_id), sid |-> source_id]

\* A 16 bit mixer of nch channels, of rate frames per second and packets of
\* frames frames, whose master volume is vol, with the given voices after one
\* call of add_source for each of the files, with the cartridges kss; run
\* tells whether start_stop_mixer(true) has just returned true or the mixer
\* was never started; obs is the observer of the voices.
InitMixerOf(voices, files, kss, run, rate, frames, nch, vol, obs) ==
    /\ channels = nch
    /\ bits = 16
    /\ buffer_packet_sample_size = frames
    /\ sample_size = 2 * nch
    /\ buffer_total_size = BufferCount * frames * 2 * nch
    /\ read_position = 0
    /\ read_inrange_index = 0
    /\ write_position = 0
    /\ paused = FALSE
    /\ buffer = [i \in 1..BufferCount |-> "zero"]
    /\ m = "none"
    /\ next = 0
    /\ rpc = "idle"
    /\ requested = 0
    /\ out_count = 0
    /\ out_zero = 0
    /\ remaining_out_count = 0
    /\ out_torn = FALSE
    /\ cpc = "idle"
    /\ carg = NoCall
    /\ ret = [op |-> "none", val |-> 0]
    /\ m_stream = run
    /\ stream_active = run
    /\ producer_on = run
    /\ ppc = IF run THEN "loop" ELSE "off"
    /\ master_volume = vol
    /\ sources = [s \in 1..Len(files) |-> SourcePCM(WaveFile(files[s]))]
    /\ mixer_channels = voices
    /\ kss_cartridges = kss
    /\ internal_sample_buffer = [k \in 1..(frames * nch) |-> 0]
    /\ internal_mix_buffer = [k \in 1..(frames * nch) |-> 0]
    /\ pv = 0
    /\ pl = 0
    /\ sample_count = 0
    /\ deactivate = FALSE
    /\ stop_all = "none"
    /\ mixer = "bound"
    /\ sampling_rate = rate
    /\ issued = { << s, files[s] >> : s \in 1..Len(files) }
    /\ fade_obs = NoFade
    /\ heard = obs
    /\ order = Unordered

\* A mono mixer at half volume after ns calls of add_source, each of the
\* file 1, whose voices are not listened to
InitMixerAt(voices, ns, kss, run, rate, frames) ==
    InitMixerOf(voices, [s \in 1..ns |-> 1], kss, run, rate, frames, 1, 128, Deaf)

\* the same at 44100 frames per second with packets of MixerFrames frames
InitMixer(voices, ns, kss, run) == InitMixerAt(voices, ns, kss, run, 44100, MixerFrames)

\* the handles the application holds
SourceHandles == 1..Len(sources)
PlayHandles == { get_handle(s, v) : s \in 1..Len(sources), v \in 1..Len(mixer_channels) }

(* --------- one voice, the ring and the callback: play and stop ---------- *)
InitSolo == \E run \in BOOLEAN : InitMixer(FreeVoices(SoloVoices), MaxSources, << >>, run)

NextSolo ==
    \/ WriteLoop \/ WriteLock \/ MixBegin \/ MixVoiceActive \/ MixVoiceStopped
    \/ MixVoicePaused \/ MixVoiceRead \/ MixVoiceRefill \/ MixVoiceDeactivate
    \/ MixCartridge \/ MixEncode \/ WriteUnlock \/ WriteCheck
    \/ WriteWaitLock \/ WritePark \/ SpuriousWake \/ WriteWake \/ WriteWaitUnlock
    \/ WritePublish
    \/ ReadBegin(buffer_packet_sample_size) \/ ReadCheck \/ ReadCopy
    \/ \E h \in SourceHandles, l \in BOOLEAN, p \in BOOLEAN : PlaySource(h, l, p)
    \/ PlaySourceScan \/ PlaySourceSample \/ PlaySourceFlags \/ PlaySourceActivate
    \/ \E h \in SourceHandles \cup PlayHandles : StopPlayback(h)
    \/ StopPlaybackVoice \/ StopPlaybackOne

Spec == InitSolo /\ [][NextSolo]_vars

(* ------- one voice, the ring and the callback: play, stop and drop ------ *)
InitDrop == InitMixer(FreeVoices(SoloVoices), MaxSources, << >>, TRUE)

NextDrop ==
    \/ WriteLoop \/ WriteLock \/ MixBegin \/ MixVoiceActive \/ MixVoiceStopped
    \/ MixVoicePaused \/ MixVoiceRead \/ MixVoiceRefill \/ MixVoiceDeactivate
    \/ MixCartridge \/ MixEncode \/ WriteUnlock \/ WriteCheck
    \/ WriteWaitLock \/ WritePark \/ SpuriousWake \/ WriteWake \/ WriteWaitUnlock
    \/ WritePublish
    \/ ReadBegin(buffer_packet_sample_size) \/ ReadCheck \/ ReadCopy
    \/ \E h \in SourceHandles, l \in BOOLEAN : PlaySource(h, l, FALSE)
    \/ PlaySourceScan \/ PlaySourceSample \/ PlaySourceFlags \/ PlaySourceActivate
    \/ \E h \in SourceHandles : StopPlayback(h)
    \/ StopPlaybackVoice
    \/ \E h \in SourceHandles : DropSource(h)
    \/ DropSourceVoice \/ DropSourceReset \/ PauseLock \/ PauseUnlock

SpecDrop == InitDrop /\ [][NextDrop]_vars

(* ---------------- the device stopped: the control calls ------------------ *)
InitIdle == InitMixer(FreeVoices(MaxVoices), MaxSources, << >>, FALSE)

NextIdle ==
    \/ \E h \in SourceHandles, l \in BOOLEAN, p \in BOOLEAN : PlaySource(h, l, p)
    \/ PlaySourceScan \/ PlaySourceSample \/ PlaySourceFlags \/ PlaySourceActivate
    \/ \E h \in {0} \cup SourceHandles \cup PlayHandles : StopPlayback(h)
    \/ StopPlaybackVoice \/ StopPlaybackOne \/ StopActiveLine
    \/ \E h \in {0} \cup SourceHandles \cup PlayHandles, p \in BOOLEAN :
          PauseResumePlayback(h, p)
    \/ PauseResumeVoice \/ PauseResumeOne \/ SetPauseActiveLine
    \/ \E h \in PlayHandles, l \in BOOLEAN : SetLoop(h, l)
    \/ \E h \in {0} \cup SourceHandles : DropSource(h)
    \/ DropSourceVoice \/ DropSourceReset

SpecIdle == InitIdle /\ [][NextIdle]_vars

(* --------------- voices playing on a running mixer: stop ---------------- *)
\* the first k voices play, each a source with its loop flag: the state after
\* start_stop_mixer(true) and k calls of play_source, before the first pass
\* of the producer
InitStop ==
    \E k \in 0..MaxVoices, f \in [1..MaxVoices -> (1..MaxSources) \X BOOLEAN] :
       InitMixer([v \in 1..MaxVoices |->
                      IF v <= k THEN PlayingVoice(f[v][1], f[v][2], FALSE)
                      ELSE MixerChannel],
                 MaxSources, << >>, TRUE)

\* a play handle of a voice the mixer does not have
StaleHandles == { get_handle(s, Len(mixer_channels) + 1) : s \in 1..Len(sources) }

NextStop ==
    \/ WriteLoop \/ WriteLock \/ MixBegin \/ MixVoiceActive \/ MixVoiceStopped
    \/ MixVoicePaused \/ MixVoiceRead \/ MixVoiceRefill \/ MixVoiceDeactivate
    \/ MixCartridge \/ MixEncode \/ WriteUnlock \/ WriteCheck
    \/ WriteWaitLock \/ WritePark \/ SpuriousWake \/ WriteWake \/ WriteWaitUnlock
    \/ WritePublish
    \/ ReadBegin(buffer_packet_sample_size) \/ ReadCheck \/ ReadCopy
    \/ \E h \in SourceHandles \cup PlayHandles \cup StaleHandles : StopPlayback(h)
    \/ StopPlaybackVoice \/ StopPlaybackOne

SpecStop == InitStop /\ [][NextStop]_vars

(* ------ voices and a KSS line playing on a running mixer: stop all ------ *)
\* the first k voices play the first source, each with its loop and pause
\* flags, and the line of the cartridge plays: the state after
\* start_stop_mixer(true), play_kss_track and k calls of play_source, before
\* the first pass of the producer
InitStopAll ==
    \E k \in 0..MaxVoices, f \in [1..MaxVoices -> BOOLEAN \X BOOLEAN] :
       InitMixer([v \in 1..MaxVoices |->
                      IF v <= k THEN PlayingVoice(1, f[v][1], f[v][2])
                      ELSE MixerChannel],
                 MaxSources, PlayingCartridges, TRUE)

NextStopAll ==
    \/ WriteLoop \/ WriteLock \/ MixBegin \/ MixVoiceActive \/ MixVoiceStopped
    \/ MixVoicePaused \/ MixVoiceRead \/ MixVoiceRefill \/ MixVoiceDeactivate
    \/ MixCartridge \/ KssLineActive \/ KssLinePause \/ KssLineCalc \/ KssLineFade \/ KssLineDeactivate
    \/ MixEncode
    \/ WriteUnlock \/ WriteCheck
    \/ WriteWaitLock \/ WritePark \/ SpuriousWake \/ WriteWake \/ WriteWaitUnlock
    \/ WritePublish
    \/ ReadBegin(buffer_packet_sample_size) \/ ReadCheck \/ ReadCopy
    \/ StopPlayback(0) \/ StopPlaybackVoice \/ StopActiveLine

SpecStopAll == InitStopAll /\ [][NextStopAll]_vars

(* ------- the device stopped: sources added, dropped and controlled ------ *)
InitSources == InitMixer(FreeVoices(MaxVoices), MaxSources, PlayingCartridges, FALSE)

\* handles add_source and play_source never return: the value -1, a voice
\* the mixer does not have, a slot the source table never has
UnknownHandles ==
    {-1} \cup { get_handle(s, Len(mixer_channels) + 1) : s \in 1..MaxSources }
         \cup { get_handle(MaxSources + 1, v) : v \in 1..Len(mixer_channels) }

NextSources ==
    \/ \E name \in 0..MaxFiles : AddSource(name)
    \/ \E h \in SourceHandles : DropSource(h)
    \/ DropSourceVoice \/ DropSourceReset
    \/ \E h \in SourceHandles, l \in BOOLEAN : PlaySource(h, l, FALSE)
    \/ PlaySourceScan \/ PlaySourceSample \/ PlaySourceFlags \/ PlaySourceActivate
    \/ \E h \in SourceHandles \cup UnknownHandles : StopPlayback(h)
    \/ StopPlaybackVoice \/ StopPlaybackOne
    \/ \E h \in SourceHandles \cup UnknownHandles, p \in BOOLEAN :
          PauseResumePlayback(h, p)
    \/ PauseResumeVoice \/ PauseResumeOne
    \/ \E h \in UnknownHandles, l \in BOOLEAN : SetLoop(h, l)
    \/ \E h \in UnknownHandles, p \in BOOLEAN : SetPause(h, p)

SpecSources == InitSources /\ [][NextSources]_vars

(* ------------- the format, the ring parameters, start and stop ---------- *)
\* MajimixPa after create_instance(): no BufferedMixer, no voice, no source,
\* 44100 Hz, stereo, 16 bits
InitFormat ==
    /\ mixer = "null"
    /\ sampling_rate = 44100
    /\ channels = 2
    /\ bits = 16
    /\ buffer_packet_sample_size = 0
    /\ sample_size = 0
    /\ buffer_total_size = 0
    /\ read_position = 0
    /\ read_inrange_index = 0
    /\ write_position = 0
    /\ producer_on = FALSE
    /\ paused = FALSE
    /\ buffer = << >>
    /\ m = "none"
    /\ ppc = "off"
    /\ next = 0
    /\ rpc = "idle"
    /\ requested = 0
    /\ out_count = 0
    /\ out_zero = 0
    /\ remaining_out_count = 0
    /\ out_torn = FALSE
    /\ cpc = "idle"
    /\ carg = NoCall
    /\ ret = [op |-> "none", val |-> 0]
    /\ m_stream = FALSE
    /\ stream_active = FALSE
    /\ master_volume = 128
    /\ sources = << >>
    /\ mixer_channels = << >>
    /\ kss_cartridges = << >>
    /\ internal_sample_buffer = << >>
    /\ internal_mix_buffer = << >>
    /\ pv = 0
    /\ pl = 0
    /\ sample_count = 0
    /\ deactivate = FALSE
    /\ stop_all = "none"
    /\ issued = {}
    /\ fade_obs = NoFade
    /\ heard = Deaf
    /\ order = Unordered

\* the rates and the bits set_format is called with: the two rates next to
\* the accepted range, its lowest rate and a rate whose default packet has one
\* frame more
Rates == {MinRate - 1, MinRate, MinRate + 50, MaxRate + 1}
FormatBits == {8, 16, 24}

NextFormat ==
    \/ \E rate \in Rates, stereo \in BOOLEAN, out_bits \in FormatBits :
          SetFormat(rate, stereo, out_bits, FormatVoices)
    \/ \E c \in -1..MaxCount, f \in -1..MaxFrames : SetMixerBufferParameters(c, f)
    \/ StartCreateStream \/ StartProducer \/ StartPlayback
    \/ StopCloseStream \/ StopProducer \/ StopNotify \/ StopJoin
    \/ WriteLoop \/ WriteLock \/ MixBegin \/ MixZeroRing \/ MixVoiceActive
    \/ MixCartridge \/ MixEncode \/ WriteUnlock \/ WriteCheck
    \/ WriteWaitLock \/ WritePark \/ SpuriousWake \/ WriteWake \/ WriteWaitUnlock
    \/ WritePublish

SpecFormat == InitFormat /\ [][NextFormat]_vars

(* ------- a KSS cartridge on a running mixer: play, update, stop --------- *)
\* the handles of the cartridges and of their lines
KssHandles == { get_kss_source_id(c) : c \in 1..Len(kss_cartridges) }
LineHandles == { get_handle(get_kss_source_id(c), l) : c \in 1..Len(kss_cartridges),
                                                      l \in 1..KssLines }

\* one cartridge of one line after add_source_kss, the mixer started
InitKss ==
    InitMixerAt(<< >>, 0, << CartridgeKSS(MaxLines) >>, TRUE, MinRate, KssFrames)

NextKss ==
    \/ WriteLoop \/ WriteLock \/ MixBegin
    \/ MixCartridge \/ KssLineActive \/ KssLinePause \/ KssLineCalc \/ KssLineFade
    \/ KssLineDeactivate \/ MixEncode \/ WriteUnlock \/ WriteCheck
    \/ WriteWaitLock \/ WritePark \/ SpuriousWake \/ WriteWake \/ WriteWaitUnlock
    \/ WritePublish
    \/ ReadBegin(buffer_packet_sample_size) \/ ReadCheck \/ ReadCopy
    \/ \E h \in KssHandles, a \in BOOLEAN : PlayKssTrack(h, 1, a, TRUE, FALSE)
    \/ ActiveLine \/ ActivateStores \/ ActivateActive \/ ActivateResume \/ ActivateReturn
    \/ \E h \in LineHandles : StopPlayback(h)
    \/ StopLine

SpecKss == InitKss /\ [][NextKss]_vars

(* ------ a KSS line playing on a running mixer: update_kss_track --------- *)
\* a line after play_kss_track(track 1, no autostop) and its first packets
FadingLine == [KSSLine EXCEPT !.active = TRUE, !.current_track = 1]

\* one cartridge whose line plays track 1, the mixer started, with packets
\* of KssFrames - 1 or KssFrames frames at MinRate frames per second
InitFade ==
    \E frames \in {KssFrames - 1, KssFrames} :
       InitMixerAt(<< >>, 0,
                   << [CartridgeKSS(MaxLines) EXCEPT !.m_lines[1] = FadingLine,
                                                     !.m_next_mixer = 1] >>,
                   TRUE, MinRate, frames)

NextFade ==
    \/ WriteLoop \/ WriteLock \/ MixBegin
    \/ MixCartridge \/ KssLineActive \/ KssLinePause \/ KssLineCalc \/ KssLineFade
    \/ KssLineDeactivate \/ MixEncode \/ WriteUnlock \/ WriteCheck
    \/ WriteWaitLock \/ WritePark \/ SpuriousWake \/ WriteWake \/ WriteWaitUnlock
    \/ WritePublish
    \/ ReadBegin(buffer_packet_sample_size) \/ ReadCheck \/ ReadCopy
    \/ \E h \in LineHandles, t \in {0, MaxTrack}, f \in 0..MaxFadeMs :
          UpdateKssTrack(h, t, FALSE, TRUE, f)
    \/ PauseLock \/ PauseUnlock
    \/ ActivateStores \/ ActivateActive \/ ActivateResume \/ ActivateReturn

SpecFade == InitFade /\ [][NextFade]_vars

(* ------------- a KSS cartridge of several lines: force_line ------------- *)
\* one cartridge of KssLines lines after add_source_kss; the mixer is started
\* or was never started
InitForce ==
    \E run \in BOOLEAN :
       InitMixerAt(<< >>, 0, << CartridgeKSS(KssLines) >>, run, MinRate, KssFrames)

NextForce ==
    \/ WriteLoop \/ WriteLock \/ MixBegin
    \/ MixCartridge \/ KssLineActive \/ KssLinePause \/ KssLineCalc \/ KssLineFade
    \/ KssLineDeactivate \/ MixEncode \/ WriteUnlock \/ WriteCheck
    \/ WriteWaitLock \/ WritePark \/ SpuriousWake \/ WriteWake \/ WriteWaitUnlock
    \/ WritePublish
    \/ \E h \in KssHandles, a \in BOOLEAN, fo \in BOOLEAN, f \in BOOLEAN :
          PlayKssTrack(h, 1, a, fo, f)
    \/ ActiveLine \/ ForceLineScan
    \/ PauseLock \/ PauseUnlock
    \/ ActivateStores \/ ActivateActive \/ ActivateResume \/ ActivateReturn

SpecForce == InitForce /\ [][NextForce]_vars

(* ------- the device stopped: loads and calls on what they returned ------ *)
InitLoad == InitMixer(FreeVoices(MaxVoices), 1, << >>, FALSE)

\* the value the last call returned, if that call was a load
Loads == {"add_source", "add_source_kss"}
Loaded == IF ret.op \in Loads THEN {ret.val} ELSE {}

NextLoad ==
    \/ \E name \in 0..MaxFiles : AddSource(name)
    \/ \E name \in 0..MaxKssFiles, lines \in 0..MaxLines : AddSourceKss(name, lines)
    \/ AddSourceKssInsert \/ AddSourceKssReturn
    \/ \E h \in Loaded, l \in BOOLEAN, p \in BOOLEAN : PlaySource(h, l, p)
    \/ PlaySourceScan \/ PlaySourceSample \/ PlaySourceFlags \/ PlaySourceActivate
    \/ \E h \in Loaded, l \in BOOLEAN : SetLoop(h, l)
    \/ \E h \in Loaded, p \in BOOLEAN : SetPause(h, p)
    \/ SetPauseActiveLine
    \/ \E h \in Loaded : PlayKssTrack(h, 1, FALSE, TRUE, FALSE)
    \/ ActiveLine \/ ActivateStores \/ ActivateActive \/ ActivateResume \/ ActivateReturn

SpecLoad == InitLoad /\ [][NextLoad]_vars

(* ------------------ many sources: the handles returned ------------------ *)
\* the device stopped, MaxSlot - 3 or MaxSlot - 2 sources added, one
\* cartridge whose line plays
InitHandle ==
    \E ns \in {MaxSlot - 3, MaxSlot - 2} :
       InitMixer(FreeVoices(MaxVoices), ns, PlayingCartridges, FALSE)

\* the value the last call returned, if that call was a load or a play
Returned == IF ret.op \in Loads \cup {"play_source"} THEN {ret.val} ELSE {}

NextHandle ==
    \/ AddSourceUpTo(1, MaxSlot)
    \/ \E h \in Loaded, l \in BOOLEAN : PlaySource(h, l, FALSE)
    \/ PlaySourceScan \/ PlaySourceSample \/ PlaySourceFlags \/ PlaySourceActivate
    \/ \E h \in Returned : StopPlayback(h)
    \/ StopPlaybackVoice \/ StopPlaybackOne \/ StopLine \/ StopActiveLine

SpecHandle == InitHandle /\ [][NextHandle]_vars

(* ------- one voice on a stereo mixer at full volume: the audio ---------- *)
\* the tone and the ramp are loaded, the voice is free and listened to
InitTone ==
    InitMixerOf(FreeVoices(SoloVoices), << ToneFile, RampFile >>, << >>, TRUE,
                44100, TonePacket, 2, 255, Listening(SoloVoices))

NextTone ==
    \/ WriteLoop \/ WriteLock \/ MixBegin \/ MixVoiceActive \/ MixVoiceStopped
    \/ MixVoicePaused \/ MixVoiceRead \/ MixVoiceRefill \/ MixVoiceDeactivate
    \/ MixCartridge \/ MixEncode \/ WriteUnlock \/ WriteCheck
    \/ WriteWaitLock \/ WritePark \/ SpuriousWake \/ WriteWake \/ WriteWaitUnlock
    \/ WritePublish
    \/ ReadBegin(buffer_packet_sample_size) \/ ReadCheck \/ ReadCopy
    \/ \E h \in SourceHandles, l \in BOOLEAN : PlaySource(h, l, FALSE)
    \/ PlaySourceScan \/ PlaySourceSample \/ PlaySourceFlags \/ PlaySourceActivate

SpecTone == InitTone /\ [][NextTone]_vars

(* ------ two voices on a stereo mixer at full volume: the sum ------------ *)
\* the two constants are loaded, the voices are free and listened to
InitSum ==
    InitMixerOf(FreeVoices(MaxVoices), << HighFile, LowFile >>, << >>, TRUE,
                44100, SumPacket, 2, 255, Listening(MaxVoices))

NextSum ==
    \/ WriteLoop \/ WriteLock \/ MixBegin \/ MixVoiceActive \/ MixVoiceStopped
    \/ MixVoicePaused \/ MixVoiceRead \/ MixVoiceDeactivate
    \/ MixCartridge \/ MixEncode \/ WriteUnlock \/ WriteCheck
    \/ WriteWaitLock \/ WritePark \/ SpuriousWake \/ WriteWake \/ WriteWaitUnlock
    \/ WritePublish
    \/ ReadBegin(buffer_packet_sample_size) \/ ReadCheck \/ ReadCopy
    \/ \E h \in SourceHandles : PlaySource(h, FALSE, FALSE)
    \/ PlaySourceScan \/ PlaySourceSample \/ PlaySourceFlags \/ PlaySourceActivate

SpecSum == InitSum /\ [][NextSum]_vars

(* ------------------------------ claims ---------------------------------- *)
\* the control thread is inside BufferedMixer::pause
InPause == cpc \in {"pause_lock", "pause_unlock"}

\* the producer thread is inside the mix function
InMix == ENABLED MixStep

\* C1: BufferedMixer.read never blocks and takes no mutex: while a read is in
\* progress its next step is always enabled and the bytes written so far plus
\* the bytes still to write are n * frame_bytes; when it has returned it has
\* written exactly n * frame_bytes bytes, each one copied from a completely
\* written (published) packet or a zero.
ReadWritesExactly ==
    /\ read_inrange_index >= 0 /\ read_inrange_index < buffer_packet_size
    /\ remaining_out_count >= 0
    /\ out_count + out_zero + remaining_out_count = requested * sample_size
    /\ rpc = "idle" => remaining_out_count = 0
    /\ rpc # "idle" => ENABLED ReadStep
    /\ ~out_torn
    /\ m # "callback"

\* C1 witness: a read that returned after copying part of a packet and zero
\* filling the rest, while the producer was paused
ReadWritesExactlyWitness ==
    /\ rpc = "idle" /\ requested = MaxRequest
    /\ out_count > 0 /\ out_zero > 0
    /\ paused /\ producer_on

\* C2: after pause(true) has returned and until pause(false) is called, the
\* producer (which was looping when pause was called: it has published a
\* packet) is never inside the mix function.
PauseQuiescesProducer ==
    (paused /\ ~InPause /\ producer_on /\ write_position # 0) => ~InMix

\* C3: stop() always terminates: whenever stop() waits in join, the producer
\* can take a step of its loop or the join can return.
StopAlwaysJoins ==
    cpc = "stop_join" => ENABLED (ProducerStep \/ StopJoin)

\* C4: while the producer is started and not paused and the callback runs, a
\* producer blocked in cv.wait still has an unread packet in the ring, whose
\* consumption notifies it: it never waits while the callback finds the
\* ring empty.
RingFullWaitIsWoken ==
    (ppc = "parked" /\ producer_on /\ ~paused /\ stream_active)
        => write_position # read_position

\* the producer thread is inside the block of voice v of the mix loop: it has
\* read active = true and may read the flags and the sample of the voice
InVoice(v) ==
    pv = v /\ ppc \in {"v_stopped", "v_paused", "v_read", "v_refill", "v_deact"}

\* C5: while the device stream is open, every step that clears the active
\* flag of a voice is the producer's deactivation at the end of the voice's
\* block of the mix loop: no step of the control thread clears it.
OnlyProducerClearsActive ==
    [][(m_stream /\ \E v \in 1..Len(mixer_channels) :
            mixer_channels[v].active /\ ~mixer_channels'[v].active)
        => (ppc = "v_deact" /\ cpc' = cpc)]_vars

\* C7: while play_source writes the sample, the source slot and the flags of
\* the voice it has claimed, the voice is not active and the producer is not
\* inside the block of that voice: it neither reads nor uses the sample.
PlaySourceNeverRacesMix ==
    \A v \in 1..Len(mixer_channels) :
        (cpc \in {"ps_sample", "ps_flags", "ps_activate"} /\ carg.i = v)
            => (~mixer_channels[v].active /\ ~InVoice(v))

\* C9: a stop request on an active voice is served: while the producer is
\* started and not paused and the callback runs, a voice that is active and
\* marked stopped never faces a producer blocked in cv.wait on an empty ring,
\* which nothing would wake.
StopRequestIsServed ==
    (producer_on /\ ~paused /\ stream_active /\ ppc = "parked"
        /\ \E v \in 1..Len(mixer_channels) :
              mixer_channels[v].active /\ mixer_channels[v].stopped)
        => write_position # read_position

\* the control thread is inside play_source
InPlaySource == cpc \in {"ps_scan", "ps_sample", "ps_flags", "ps_activate"}

\* C6: play_source on an existing source returns 0 only when its scan found
\* every voice active; when it returns a handle it has claimed a voice v that
\* was free while every voice below v was active, it leaves v active, not
\* stopped, with the loop and pause flags requested and the source id of the
\* handle given, the handle returned has v in its voice field and the source
\* id in its source field, and no step of the call changes another voice.
PlaySourceClaimsLowestFree ==
    [][/\ (cpc = "ps_scan" /\ cpc' = "idle")
            => /\ ret'.val = 0
               /\ \A u \in 1..Len(mixer_channels) : mixer_channels[u].active
       /\ cpc = "ps_activate"
            => /\ \A u \in 1..(carg.i - 1) : mixer_channels[u].active
               /\ ~mixer_channels[carg.i].active
               /\ mixer_channels'[carg.i].active
               /\ ~mixer_channels'[carg.i].stopped
               /\ mixer_channels'[carg.i].loop = carg.l
               /\ mixer_channels'[carg.i].paused = carg.p
               /\ mixer_channels'[carg.i].sid = get_source_id(carg.h)
               /\ ret'.val # 0
               /\ get_channel_id(ret'.val) = carg.i
               /\ get_source_id(ret'.val) = get_source_id(carg.h)
       /\ InPlaySource
            => \A u \in 1..Len(mixer_channels) :
                  u # carg.i => mixer_channels'[u] = mixer_channels[u]]_vars

\* C6 witness: play_source has returned the handle of the second voice,
\* claimed looping and paused while the first voice plays the other source
PlaySourceClaimsLowestFreeWitness ==
    /\ cpc = "idle"
    /\ ret = [op |-> "play_source", val |-> get_handle(1, 2)]
    /\ mixer_channels[1].active /\ mixer_channels[1].sid = 2
    /\ mixer_channels[2].active /\ mixer_channels[2].loop /\ mixer_channels[2].paused

\* no voice and no KSS line is active
NothingActive ==
    /\ \A v \in 1..Len(mixer_channels) : ~mixer_channels[v].active
    /\ \A c \in 1..Len(kss_cartridges) :
          \A k \in 1..Len(kss_cartridges[c].m_lines) :
             ~kss_cartridges[c].m_lines[k].active

\* C8: a mix pass that began after stop_playback(0) returned (no play_source
\* called since) ends with a packet whose bytes are all zero and with no
\* voice and no KSS line active.
StopAllSilences ==
    (stop_all = "pass" /\ ppc = "unlock")
        => /\ \A k \in 1..(Len(internal_mix_buffer) * (bits \div 8)) :
                 EncodeNbits(internal_mix_buffer)[k] = 0
           /\ NothingActive

\* C8 witness: such a pass has ended on a mixer whose two voices were playing,
\* the first one looping, and whose KSS line had rendered its track
StopAllSilencesWitness ==
    /\ stop_all = "pass" /\ ppc = "unlock"
    /\ mixer_channels[1].loop /\ mixer_channels[1].sample.src # 0
    /\ mixer_channels[2].sample.src # 0
    /\ kss_cartridges[1].m_lines[1].current_track = 1

\* the step is one of the control thread
ControlStep == cpc' # cpc \/ carg' # carg

\* the voice ch is active and plays the source of the handle
Matches(ch, handle) == ch.active /\ ch.sid = get_source_id(handle)

\* what stop_playback(handle) makes of the voice v it visits, all other
\* voices left as they are: a matching voice is marked stopped, a voice that
\* does not match is left as it is
StopMarks(v, handle) ==
    /\ Matches(mixer_channels[v], handle) => mixer_channels'[v].stopped
    /\ ~Matches(mixer_channels[v], handle) => mixer_channels'[v] = mixer_channels[v]
    /\ \A u \in 1..Len(mixer_channels) :
          u # v => mixer_channels'[u] = mixer_channels[u]

\* C10: stop_playback with a play handle of a PCM source marks the voice of
\* the handle stopped if and only if that voice is active and plays the source
\* of the handle, and changes no flag of any voice otherwise; with a source
\* handle each pass of its loop does the same to the voice it visits, so that
\* exactly the active voices of that source are marked.
StopPlaybackMarksMatching ==
    [][ControlStep =>
        /\ (cpc = "sp_one" /\ get_channel_id(carg.h) <= Len(mixer_channels))
             => StopMarks(get_channel_id(carg.h), carg.h)
        /\ (cpc = "sp_voice" /\ carg.h # 0 /\ carg.i <= Len(mixer_channels))
             => StopMarks(carg.i, carg.h)
        /\ (cpc = "sp_voice" /\ carg.h # 0 /\ carg.i > Len(mixer_channels))
             => mixer_channels' = mixer_channels]_vars

\* C10 witness: both voices play the same source and stop_playback with the
\* play handle of the first has marked the first only
StopPlaybackMarksMatchingWitness ==
    /\ cpc = "idle"
    /\ mixer_channels[1].active /\ mixer_channels[1].stopped
    /\ mixer_channels[2].active /\ ~mixer_channels[2].stopped
    /\ mixer_channels[1].sid = mixer_channels[2].sid

\* the handle was returned by add_source for a file whose source has been
\* dropped since: the slot is empty or holds the source of another file
Stale(handle) ==
    \E e \in issued :
       /\ e[1] = get_source_id(handle)
       /\ \/ ~sources[e[1]].present
          \/ sources[e[1]].pcm # WaveFile(e[2]).pcm

\* the control thread is inside play_source, stop_playback or
\* pause_resume_playback and may write a voice
InVoiceCall ==
    cpc \in {"ps_sample", "ps_flags", "ps_activate", "sp_voice", "sp_one",
             "pr_voice", "pr_one"}

\* C11: a control call made with a handle that was issued for a source
\* dropped since, whatever sources were added after, is a no-op: it leaves
\* every voice as it was.
StaleHandleIsNoOp ==
    [][(InVoiceCall /\ Stale(carg.h)) => mixer_channels' = mixer_channels]_vars

\* C12: stop_playback, pause_resume_playback, set_loop and set_pause called
\* with a handle that was never issued leave the sources, the voices and the
\* cartridges unchanged and index the voice table inside 1..channel_count only.
UnknownHandleIsIgnored ==
    [][/\ \A h \in UnknownHandles, f \in BOOLEAN :
             (SetLoop(h, f) \/ SetPause(h, f)) =>
                 /\ UNCHANGED voice_vars
                 /\ get_source_id(h) # 0 /\ get_source_type(h) # 1 =>
                       get_channel_id(h) \in 0..Len(mixer_channels)
       /\ (cpc \in {"sp_voice", "sp_one", "pr_voice", "pr_one"}
              /\ carg.h \in UnknownHandles) =>
                 /\ UNCHANGED voice_vars
                 /\ cpc \in {"sp_one", "pr_one"} =>
                       get_channel_id(carg.h) \in 1..Len(mixer_channels)]_vars

\* C13: once drop_source has emptied the slot of a PCM source and until a
\* source is added to that slot again, play_source with the handle of the slot
\* returns 0 (it claims a voice and returns a play handle
\* for a present source only), and no voice, active or free, has the
\* slot as its sid or owns a sample of the dropped source.
DroppedSourceIsGone ==
    /\ [](\A s \in 1..Len(sources) : ~sources[s].present =>
             \A v \in 1..Len(mixer_channels) :
                /\ mixer_channels[v].sid # s
                /\ mixer_channels[v].sample.src # s)
    /\ [][/\ (cpc = "idle" /\ cpc' = "ps_scan") =>
                 sources[get_source_id(carg'.h)].present
          /\ (cpc = "ps_activate" /\ cpc' = "idle") =>
                 sources[get_source_id(carg.h)].present]_vars

\* drop_source(1) has returned true and has cleared the voice that was playing
\* source 1 while the producer was reading that voice
DroppedSourceIsGoneWitness ==
    /\ cpc = "idle"
    /\ ret = [op |-> "drop_source", val |-> TRUE]
    /\ ~sources[1].present
    /\ sources[2].present
    /\ ppc = "v_read"
    /\ pv = 1
    /\ mixer_channels[1].sid = 0

\* C14: every step of drop_source(H), H # 0, leaves unchanged the voices whose
\* sid is not the source id of H, the source slots other than the slot of H
\* and the cartridges other than the cartridge of H (all of them when H is
\* the handle of a PCM source).
DropSourceFrame ==
    [][(ControlStep /\ cpc \in {"ds_voice", "ds_reset"} /\ carg.h # 0) =>
          /\ Len(mixer_channels') = Len(mixer_channels)
          /\ \A v \in 1..Len(mixer_channels) :
                mixer_channels[v].sid # get_source_id(carg.h) =>
                   mixer_channels'[v] = mixer_channels[v]
          /\ Len(sources') = Len(sources)
          /\ \A s \in 1..Len(sources) :
                (get_source_type(carg.h) # 0 \/ s # get_untyped_source_id(carg.h)) =>
                   sources'[s] = sources[s]
          /\ Len(kss_cartridges') = Len(kss_cartridges)
          /\ \A k \in 1..Len(kss_cartridges) :
                (get_source_type(carg.h) # 1 \/ k # get_untyped_source_id(carg.h)) =>
                   kss_cartridges'[k] = kss_cartridges[k]
          /\ master_volume' = master_volume]_vars

\* drop_source(1) has returned true: it has cleared the second voice, which
\* was playing source 1, while the first voice goes on playing source 2
DropSourceFrameWitness ==
    /\ cpc = "idle"
    /\ ret = [op |-> "drop_source", val |-> TRUE]
    /\ ~sources[1].present
    /\ sources[2].present
    /\ mixer_channels[1].active
    /\ mixer_channels[1].sid = 2
    /\ mixer_channels[2].sid = 0
    /\ ~mixer_channels[2].stopped
    /\ kss_cartridges = PlayingCartridges

\* C15: while the stream is open, set_format and set_mixer_buffer_parameters
\* return false, and no step taken while the stream is open and no other call
\* is in progress changes the rate, the channels, the bits, the voice table,
\* the BufferedMixer instance with its sizes and its ring, or the size of the
\* scratch buffers.
StreamOpenRefusesFormat ==
    [][(m_stream /\ cpc = "idle" /\ cpc' = "idle") =>
          /\ UNCHANGED << conf_vars, mixer_channels, producer_on, paused >>
          /\ Len(buffer') = Len(buffer)
          /\ Len(internal_sample_buffer') = Len(internal_sample_buffer)
          /\ Len(internal_mix_buffer') = Len(internal_mix_buffer)
          /\ (ret' # ret /\ ret'.op \in {"set_format", "set_mixer_buffer_parameters"})
                => ret'.val = FALSE]_vars

\* the mixer runs and a call of set_mixer_buffer_parameters has returned false
StreamOpenRefusesFormatWitness ==
    /\ m_stream
    /\ stream_active
    /\ producer_on
    /\ cpc = "idle"
    /\ ret = [op |-> "set_mixer_buffer_parameters", val |-> FALSE]

\* C16: set_format called with a rate outside MinRate..MaxRate or with bits
\* other than 16 and 24 returns false and changes no variable of the mixer
\* (a step is a refusal by set_format or is not a step of set_format with
\* such arguments); at all times channels is 1 or 2, bits is 16 or 24 and the rate is in
\* MinRate..MaxRate.
FormatStaysValid ==
    /\ [](/\ channels \in {1, 2}
          /\ bits \in {16, 24}
          /\ sampling_rate >= MinRate
          /\ sampling_rate <= MaxRate)
    /\ [][\/ /\ ret'.op = "set_format"
             /\ ret'.val = FALSE
             /\ UNCHANGED << ring_vars, read_vars, dev_vars, conf_vars, obs_vars,
                             voice_vars, mix_vars >>
          \/ cpc # "idle" \/ cpc' # "idle"
          \/ \A rate \in Rates, stereo \in BOOLEAN, out_bits \in FormatBits :
                (rate < MinRate \/ rate > MaxRate \/ out_bits \notin {16, 24}) =>
                   ~SetFormat(rate, stereo, out_bits, FormatVoices)]_vars

\* set_format has returned false on a mixer that is configured and whose
\* stream is closed: the rate or the bits were refused
FormatStaysValidWitness ==
    /\ ~m_stream
    /\ mixer = "bound"
    /\ cpc = "idle"
    /\ ret = [op |-> "set_format", val |-> FALSE]

\* C17: set_mixer_buffer_parameters called with a count or a number of frames
\* that is zero or negative returns false and leaves the BufferedMixer, its
\* sizes and the scratch buffers as they are (a step is such a refusal or is
\* not a step of the call with such arguments), and the producer never runs
\* on a ring of total size zero.
BadBufferParametersRefused ==
    /\ [](producer_on => buffer_total_size # 0)
    /\ [][\/ /\ ret'.op = "set_mixer_buffer_parameters"
             /\ ret'.val = FALSE
             /\ UNCHANGED << ring_vars, read_vars, dev_vars, conf_vars, obs_vars,
                             voice_vars, mix_vars >>
          \/ cpc # "idle" \/ cpc' # "idle"
          \/ \A c \in -1..MaxCount, f \in -1..MaxFrames :
                (c <= 0 \/ f <= 0) => ~SetMixerBufferParameters(c, f)]_vars

\* C18: when start_stop_mixer(true) returns false because the stream could not
\* be opened, because the producer did not start or because the device
\* refused to start, the mixer is stopped: no stream is open, the producer
\* thread is not running and get_mixer_status returns MixerStopped.
FailedStartLeavesStopped ==
    [][(/\ ret'.op = "start_stop_mixer"
        /\ ret'.val = FALSE
        /\ cpc' = "idle"
        /\ \/ cpc = "start_playback"
           \/ cpc = "idle" /\ ~m_stream /\ mixer # "null") =>
          /\ ~m_stream'
          /\ ~producer_on'
          /\ get_mixer_status' = {"MixerStopped"}]_vars

\* C19: when set_format was the last call and returned true, the ring has 5
\* packets of rate * 100 / 1000 / 5 frames for the rate that was set.
FormatSizesRing ==
    (cpc = "idle" /\ ret.op = "set_format" /\ ret.val = TRUE) =>
        /\ get_buffer_count = 5
        /\ buffer_packet_sample_size = ((sampling_rate * 100) \div 1000) \div 5

\* C20: once set_format or set_mixer_buffer_parameters has made a
\* BufferedMixer, both scratch buffers have exactly packet_frames * channels
\* values, and a call of mix writes exactly the bytes of one packet,
\* packet_frames * channels * (bits / 8), inside the ring.
ScratchMatchesPacket ==
    mixer # "null" =>
        /\ Len(internal_sample_buffer) = buffer_packet_sample_size * channels
        /\ Len(internal_mix_buffer) = buffer_packet_sample_size * channels
        /\ ppc \in {"mix", "encode"} =>
              /\ Len(EncodeNbits(internal_mix_buffer)) = buffer_packet_size
              /\ buffer_packet_size = buffer_packet_sample_size * channels * (bits \div 8)
              /\ write_position + buffer_packet_size <= buffer_total_size

\* a step of the producer thread inside mix's voice loop
MixVoiceStep == (ppc' # ppc \/ pv' # pv) /\ ppc \in {"v_active", "v_stopped", "v_paused", "v_deact"}

\* the voice under the producer's hand is one that mix does not read:
\* inactive, stopped or without sample, paused, or being deactivated
SilentVoice ==
    \/ ppc = "v_active" /\ ~mixer_channels[pv].active
    \/ ppc = "v_stopped" /\ (mixer_channels[pv].stopped \/ mixer_channels[pv].sample = NoSample)
    \/ ppc = "v_paused" /\ mixer_channels[pv].paused
    \/ ppc = "v_deact"

\* C21: the active voices never outnumber the voice table; a voice that the
\* producer finds inactive, stopped or paused adds nothing to the packet's
\* mix buffer, its sample cursor stays where it was and no read is started;
\* a voice skipped because it is paused is still active afterwards.
SilentVoiceAddsNothing ==
    /\ [](Cardinality({v \in 1..Len(mixer_channels) : mixer_channels[v].active})
             <= Len(mixer_channels))
    /\ [][ (MixVoiceStep /\ SilentVoice) =>
              /\ internal_mix_buffer' = internal_mix_buffer
              /\ mixer_channels'[pv].sample = mixer_channels[pv].sample
              /\ ppc' \in {"v_active", "v_deact", "k_cart"}
              /\ (ppc = "v_paused" => /\ mixer_channels'[pv].active
                                      /\ mixer_channels'[pv].paused) ]_vars

\* the producer went past a paused voice: the voice is active, the mix
\* buffer holds silence and the cursor is at the frame play_source set
SilentVoiceAddsNothingWitness ==
    /\ ppc = "k_cart"
    /\ mixer_channels[1].active /\ mixer_channels[1].paused /\ ~mixer_channels[1].stopped
    /\ mixer_channels[1].sample # NoSample /\ mixer_channels[1].sample.pos = 0
    /\ \A k \in 1..Len(internal_mix_buffer) : internal_mix_buffer[k] = 0

\* the producer is inside read_line_convert of line line_id of cartridge cart,
\* past the test of line.active
InLine(cart, line_id) ==
    ppc \in {"k_pause", "k_calc", "k_fade", "k_deact"} /\ pv = cart /\ pl = line_id

\* C22: active_line needs no quiescent producer: whenever activate is between
\* its stores on a line (next_track, autostop, forcable and id written,
\* transition_fadeout and active still to write), the producer is not inside
\* read_line_convert of that line; and the producer clears active only for
\* the playback it has read: with no fade asked, of a line in autostop.
ActiveLineNeedsNoPause ==
    /\ [](cpc = "act_fade" => ~InLine(carg.i, carg.j))
    /\ [][ \A l \in 1..MaxLines :
              (/\ ppc = "k_deact" /\ pv = 1 /\ pl = l
               /\ kss_cartridges[1].m_lines[l].active
               /\ ~kss_cartridges'[1].m_lines[l].active)
              => kss_cartridges[1].m_lines[l].autostop ]_vars

\* the lines of cartridge c that may be pre-empted
Forcable(c) ==
    { k \in 1..Len(kss_cartridges[c].m_lines) : kss_cartridges[c].m_lines[k].forcable }

FadeStep == ppc = "k_fade" /\ ppc' # "k_fade" /\ pv = 1 /\ pl = 1

\* C24: a line with a running fade and no next track is freed in the packet
\* in which its fade counter expires: the producer step that brings the
\* counter of such a line to 0 goes on to clear line.active.
FadeEndFreesLine ==
    [][ (/\ FadeStep
         /\ kss_cartridges[1].m_lines[1].transition_fadeout > 0
         /\ kss_cartridges[1].m_lines[1].next_track = 0
         /\ kss_cartridges'[1].m_lines[1].transition_fadeout = 0)
        => ppc' = "k_deact" ]_vars

\* the producer ends read_line_convert's first step on the observed line
ObservedCalc ==
    /\ ppc = "k_calc" /\ ppc' = "k_fade"
    /\ fade_obs.cart = pv /\ fade_obs.line = pl

\* C25: after update_kss_track(line, track, fade_ms) with a track and a fade,
\* the line goes on rendering what it played for fade_ms * rate / 1000 frames
\* and the engine is reset to the new track at the end of the fade: the
\* pending track is promoted by no packet before those frames are rendered,
\* and by the first packet after them.
TrackChangesAtFadeEnd ==
    [][ ObservedCalc =>
           LET line == kss_cartridges[pv].m_lines[pl]
               promoted == line.next_track # 0 /\ kss_cartridges'[pv].m_lines[pl].next_track = 0
           IN  /\ promoted => fade_obs.got >= fade_obs.need
               /\ (fade_obs.got >= fade_obs.need /\ line.next_track # 0) => promoted ]_vars

\* the handles add_source and add_source_kss have returned for a file loaded
IssuedHandles == { e[1] : e \in issued }

\* C26: a load that fails returns the null handle 0 and publishes nothing,
\* and what it returned reaches no source, cartridge or voice afterwards: a
\* load returns either 0 with the three tables as they were or the handle of
\* the source it has just stored, and while the value a failed load returned
\* is the one the application uses, its calls other than loads change none
\* of the tables.
FailedLoadPublishesNothing ==
    [][ /\ (ret' # ret /\ ret'.op \in Loads) =>
              \/ ret'.val = 0 /\ UNCHANGED << sources, kss_cartridges, mixer_channels >>
              \/ ret'.val \in IssuedHandles'
        /\ (/\ ret' = ret /\ ret.op \in Loads /\ ret.val \notin IssuedHandles
            /\ cpc # "ak_insert") =>
              UNCHANGED << sources, kss_cartridges, mixer_channels >> ]_vars

\* handle decodes to a source of table kind (0: PCM, 1: KSS), slot and voice
Decodes(handle, kind, slot, voice) ==
    /\ get_source_type(handle) = kind
    /\ get_untyped_source_id(handle) = slot
    /\ get_channel_id(handle) = voice

\* C27: the handles keep slot, kind and voice apart, however many sources
\* were added: a handle returned by add_source decodes to kind 0, voice 0
\* and the slot of a stored source, one returned by add_source_kss to kind 1
\* and voice 0, one returned by play_source to kind 0 and the voice that
\* plays the slot it decodes to; and no call made with a handle of a PCM
\* source goes to a KSS cartridge.
HandlesKeepKinds ==
    /\ []((ret.op = "add_source" /\ ret.val # 0) =>
             \E slot \in 1..Len(sources) :
                sources[slot].present /\ Decodes(ret.val, 0, slot, 0))
    /\ []((ret.op = "add_source_kss" /\ ret.val \notin {0, -1}) =>
             \E slot \in 1..Len(kss_cartridges) :
                kss_cartridges[slot].present /\ Decodes(ret.val, 1, slot, 0))
    /\ []((ret.op = "play_source" /\ ret.val # 0) =>
             \E v \in 1..Len(mixer_channels) :
                Decodes(ret.val, 0, mixer_channels[v].sid, v))
    /\ [][ (cpc = "idle" /\ ret.op \in {"add_source", "play_source"}) =>
              (cpc' \notin {"sp_line", "sp_lines"} /\ UNCHANGED kss_cartridges) ]_vars

\* the values, one per frame and channel, of the data chunk of the file the
\* source in slot s was loaded from
Recorded(s) ==
    LET name == (CHOOSE e \in issued : e[1] = s)[2]
    IN  IF name = ToneFile THEN ToneValues
        ELSE IF name = RampFile THEN RampValues
        ELSE IF name \in {HighFile, LowFile} THEN ConstValues(name)
        ELSE PlainValues(name)

\* the input of a stereo mixer for the frame e of a play of the source in
\* slot s, the frames counted from 0 and the source repeated: the two values
\* of a stereo frame, or the value of a mono frame for both channels
InputFrame(s, e) ==
    LET f == e % size(sources[s])
    IN  IF sources[s].channels = 2
        THEN << Recorded(s)[2 * f + 1], Recorded(s)[2 * f + 2] >>
        ELSE << Recorded(s)[f + 1], Recorded(s)[f + 1] >>

\* the input of a stereo mixer for the count frames of a play of the source
\* in slot s that start at frame from
Input(s, from, count) ==
    [k \in 1..(2 * count) |-> InputFrame(s, from + ((k - 1) \div 2))[((k - 1) % 2) + 1]]

\* the producer encodes a packet that voice v, alone, has filled from a
\* source of the channel count of the mixer, at master volume 255
SoloPacket(v) ==
    /\ ppc = "encode"
    /\ master_volume = 255
    /\ heard[v].n = buffer_packet_sample_size
    /\ \A u \in 1..Len(heard) : u # v => heard[u].n = 0
    /\ sources[mixer_channels[v].sid].channels = channels

\* the first packet of voice v is being encoded and v plays the tone
FirstOfTone(v) ==
    /\ heard[v].total = heard[v].n
    /\ Recorded(mixer_channels[v].sid) = ToneValues

\* a stereo packet whose frames alternate between high and low
Alternating(high, low) ==
    [k \in 1..(2 * buffer_packet_sample_size) |->
        IF ((k - 1) \div 2) % 2 = 0 THEN high ELSE low]

\* C28 as stated: the first packet of the tone holds 0x121D and -0x121D.
FirstPacketHolds121D ==
    [][ \A v \in 1..Len(heard) :
           (SoloPacket(v) /\ ppc' = "unlock" /\ FirstOfTone(v)) =>
              EncodeNbits(internal_mix_buffer') =
                 Wave16(Alternating(4637, 0 - 4637), 2).pcm ]_vars

\* C28: a 16 bit source of the rate and channel count of the mixer, played
\* alone at master volume 255: every sample of the packet is the input
\* sample times 255, shifted right by 8 (the floor of the 256th), and the
\* packet holds its 16 bits, low byte first; the first packet of the tone
\* that alternates 0x1234 and -0x1234 holds 0x1221 and -0x1222.
SoloPacketIsInputScaled ==
    [][ \A v \in 1..Len(heard) :
           (SoloPacket(v) /\ ppc' = "unlock") =>
              LET input == Input(mixer_channels[v].sid, heard[v].total - heard[v].n,
                                 heard[v].n)
              IN  /\ internal_mix_buffer' =
                        [k \in 1..Len(input) |-> (input[k] * 255) \div 256]
                  /\ EncodeNbits(internal_mix_buffer') = Wave16(internal_mix_buffer', 2).pcm
                  /\ FirstOfTone(v) =>
                        internal_mix_buffer' = Alternating(4641, 0 - 4642) ]_vars

\* the first packet of the tone has been encoded: 0x1221 and -0x1222
SoloPacketIsInputScaledWitness ==
    /\ ppc = "unlock"
    /\ heard[1].n = buffer_packet_sample_size
    /\ FirstOfTone(1)
    /\ internal_mix_buffer = Alternating(4641, 0 - 4642)

\* the producer encodes a packet that two voices and no other have filled,
\* a from the constant +8000 and b from the constant +4000, at master
\* volume 255
SumPacketOfTwo(a, b) ==
    /\ ppc = "encode"
    /\ master_volume = 255
    /\ a # b
    /\ heard[a].n = buffer_packet_sample_size
    /\ heard[b].n = buffer_packet_sample_size
    /\ \A u \in 1..Len(heard) : u \notin {a, b} => heard[u].n = 0
    /\ Recorded(mixer_channels[a].sid) = ConstValues(HighFile)
    /\ Recorded(mixer_channels[b].sid) = ConstValues(LowFile)

\* a stereo packet whose values are all value
Constant(value) == [k \in 1..(2 * buffer_packet_sample_size) |-> value]

\* C29 as stated: the output frames of +8000 and +4000 together are
\* (11718, 11718).
SumHolds11718 ==
    [][ \A a, b \in 1..Len(heard) :
           (SumPacketOfTwo(a, b) /\ ppc' = "unlock") =>
              internal_mix_buffer' = Constant(11718) ]_vars

\* C29: two mono voices of the constants +8000 and +4000 playing together
\* on a stereo mixer at master volume 255: the read of each voice writes its
\* value to both channels of the scratch, the scratch is added to the 32 bit
\* accumulator, which holds (12000, 12000), and the master volume attenuates
\* the sum to the output frames (11953, 11953).
SumOfTwoIsScaled ==
    [][ /\ (ppc = "v_read" /\ ppc' # ppc /\ pv <= Len(heard)
            /\ heard'[pv].n = buffer_packet_sample_size) =>
              LET heard_v == Input(mixer_channels[pv].sid, heard[pv].total, heard'[pv].n)
              IN  /\ internal_sample_buffer' = heard_v
                  /\ internal_mix_buffer' =
                        [k \in 1..Len(heard_v) |-> internal_mix_buffer[k] + heard_v[k]]
        /\ \A a, b \in 1..Len(heard) :
              (SumPacketOfTwo(a, b) /\ ppc' = "unlock") =>
                 /\ internal_mix_buffer = Constant(12000)
                 /\ internal_mix_buffer' = Constant(11953)
                 /\ EncodeNbits(internal_mix_buffer') = Wave16(internal_mix_buffer', 2).pcm ]_vars

\* a packet of the two voices together has been encoded: (11953, 11953)
SumOfTwoIsScaledWitness ==
    /\ ppc = "unlock"
    /\ \A v \in 1..MaxVoices : heard[v].n = buffer_packet_sample_size
    /\ mixer_channels[1].sid # mixer_channels[2].sid
    /\ internal_mix_buffer = Constant(11953)

\* the producer has made the last read of a packet for a looping voice that
\* is listened to
LoopReadsDone ==
    /\ ppc \in {"v_read", "v_refill"}
    /\ ppc' \notin {"v_read", "v_refill"}
    /\ pv <= Len(heard)
    /\ mixer_channels[pv].loop

Unread == ((write_position - read_position) % buffer_total_size) \div buffer_packet_size
\* the slots of the unread packets
UnreadSlots ==
    { SlotOf((read_position + k * buffer_packet_size) % buffer_total_size) :
         k \in 0..(Unread - 1) }

\* C31: the consumer never copies bytes from the slot the producer is mixing
\* into: whenever read() is about to copy, read_position differs from
\* write_position and its slot holds a published packet; the unread slots
\* all hold published packets, never the slot at write_position, and are at
\* most buffer_count - 1; and the slot mix begins to write is not an unread
\* one, nor one read in part.
ReaderAndWriterSlotsDisjoint ==
    /\ [](rpc = "copy" => /\ read_position # write_position
                          /\ buffer[SlotOf(read_position)] = "full")
    /\ [](/\ SlotOf(write_position) \notin UnreadSlots
          /\ Unread <= Len(buffer) - 1
          /\ \A s \in UnreadSlots : buffer[s] = "full")
    /\ [](~out_torn)
    /\ [][ (ppc = "mix" /\ ppc' # ppc) =>
              /\ SlotOf(write_position) \notin UnreadSlots
              /\ read_position = write_position => read_inrange_index = 0 ]_vars

\* the ring is full: buffer_count - 1 packets are unread, the reader has
\* copied a part of the oldest and the producer is mixing the next one
ReaderAndWriterSlotsDisjointWitness ==
    /\ Unread = Len(buffer) - 1
    /\ read_inrange_index > 0
    /\ buffer[SlotOf(write_position)] = "torn"
    /\ out_count > 0

\* the ring with its packets numbered
InitOrder == InitRingOf(Ordered(BufferCount))
SpecOrder == InitOrder /\ [][NextRing]_vars

UnlockOnlyByOwner ==
    [][ /\ (ppc \in {"unlock", "wunlock", "pub"} /\ ppc' # ppc) => m = "producer"
        /\ (m = "control" /\ m' # "control") => cpc' # cpc ]_vars

(* ---- one voice: start and stop of the mixer, play and stop of sounds ---- *)
InitHalt == InitMixer(FreeVoices(SoloVoices), 1, << >>, FALSE)

NextHalt ==
    \/ StartCreateStream \/ StartProducer \/ StartPlayback
    \/ StopCloseStream \/ StopProducer \/ StopNotify \/ StopJoin
    \/ WriteLoop \/ WriteLock \/ MixBegin \/ MixVoiceActive \/ MixVoiceStopped
    \/ MixVoicePaused \/ MixVoiceRead \/ MixVoiceRefill \/ MixVoiceDeactivate
    \/ MixCartridge \/ MixEncode \/ WriteUnlock \/ WriteCheck
    \/ WriteWaitLock \/ WritePark \/ SpuriousWake \/ WriteWake \/ WriteWaitUnlock
    \/ WritePublish
    \/ ReadBegin(buffer_packet_sample_size) \/ ReadCheck \/ ReadCopy
    \/ \E h \in SourceHandles, l \in BOOLEAN, p \in BOOLEAN : PlaySource(h, l, p)
    \/ PlaySourceScan \/ PlaySourceSample \/ PlaySourceFlags \/ PlaySourceActivate
    \/ \E h \in {0} \cup SourceHandles \cup PlayHandles : StopPlayback(h)
    \/ StopPlaybackVoice \/ StopPlaybackOne

SpecHalt == InitHalt /\ [][NextHalt]_vars

\* the producer thread does not exist or has returned from write()
ProducerStopped == ~producer_on /\ ppc \in {"off", "exited"}

\* C34: between two calls of the API the producer runs only while the stream
\* is open: with m_stream null it is stopped; so a step of stop_playback that
\* clears active itself, which it does with m_stream null only, is made
\* while the producer is stopped.
ProducerRunsOnlyWithStream ==
    /\ []((cpc = "idle" /\ ~m_stream) => ProducerStopped)
    /\ [][ (/\ cpc \in {"sp_voice", "sp_one"}
            /\ carg' # carg
            /\ \E v \in 1..Len(mixer_channels) :
                  mixer_channels[v].active /\ ~mixer_channels'[v].active)
           => (~m_stream /\ ProducerStopped) ]_vars

\* the mixer has run and is stopped, a sound was played on voice 1, and
\* stop_playback(0) has passed voice 1, which is stopped and free
ProducerRunsOnlyWithStreamWitness ==
    /\ ppc = "off"
    /\ \E i \in 1..Len(buffer) : buffer[i] = "full"
    /\ ~m_stream
    /\ cpc = "sp_voice"
    /\ carg.h = 0
    /\ carg.i = 2
    /\ mixer_channels[1].stopped
    /\ mixer_channels[1].sid # 0
    /\ ~mixer_channels[1].active

(* ---- the calls that pause the producer around their work, on one cartridge ---- *)
\* the handle of the first cartridge and the handle of its first line
FirstCartridge == get_kss_source_id(1)
FirstLine == get_handle(FirstCartridge, 1)

InitQuiesce ==
    \E run \in BOOLEAN : InitMixerAt(<< >>, 1, << >>, run, MinRate, KssFrames)

NextQuiesce ==
    \/ WriteLoop \/ WriteLock \/ MixBegin
    \/ MixCartridge \/ KssLineActive \/ KssLinePause \/ KssLineCalc \/ KssLineFade
    \/ KssLineDeactivate \/ MixEncode \/ WriteUnlock \/ WriteCheck
    \/ WriteWaitLock \/ WritePark \/ SpuriousWake \/ WriteWake \/ WriteWaitUnlock
    \/ WritePublish
    \/ \E p \in BOOLEAN : PauseProducer(p)
    \/ PauseLock \/ PauseUnlock
    \/ AddSourceKss(1, MaxLines) \/ AddSourceKssInsert \/ AddSourceKssReturn
    \/ PlayKssTrack(FirstCartridge, 1, TRUE, TRUE, TRUE)
    \/ ActiveLine \/ ForceLineScan
    \/ UpdateKssTrack(FirstLine, MaxTrack, FALSE, TRUE, 0)
    \/ ActivateStores \/ ActivateActive \/ ActivateResume \/ ActivateReturn
    \/ \E h \in {FirstCartridge, FirstLine} : UpdateKssVolume(h, 100)
    \/ KssVolumeSet \/ KssVolumeReturn
    \/ \E h \in {0, FirstCartridge, FirstLine} : UpdateKssFrequency(h, 50)
    \/ KssFrequencySet \/ KssFrequencyReturn
    \/ \E h \in SourceHandles : DropSource(h)
    \/ DropSourceVoice \/ DropSourceReset

SpecQuiesce == InitQuiesce /\ [][NextQuiesce]_vars

\* C35: a call that pauses the producer around its work leaves paused as it
\* found it: need_reactive becomes true only while the producer runs and is
\* not paused, the call then returns with paused false again; without
\* need_reactive no step of the call changes paused (only pause_producer,
\* whose steps in pause() carry no need_reactive, does).
QuiescingCallsRestorePaused ==
    [][ /\ cpc = "idle" => paused' = paused
        /\ (~carg.act /\ carg'.act) => (producer_on /\ ~paused)
        /\ (cpc # "idle" /\ carg.act /\ cpc' = "idle") => (producer_on' /\ ~paused')
        /\ (cpc \notin {"idle", "pause_lock", "pause_unlock"} /\ ~carg.act) =>
              paused' = paused ]_vars

\* update_kss_volume has paused a running producer, has set the volume and
\* is resuming it
QuiescingCallsRestorePausedWitness ==
    /\ cpc = "pause_unlock"
    /\ carg.act
    /\ carg.cont = "kv_ret"
    /\ ~paused
    /\ producer_on
    /\ kss_cartridges[1].m_master_volume = 100

(* ---- the line read of a packet on lines in every state, producer alone ---- *)
\* the states a line can be left in by play_kss_track, update_kss_track,
\* set_pause and stop_playback before its first packet: no current track
LineStates ==
    { [KSSLine EXCEPT !.active = a, !.pause = p, !.autostop = s, !.next_track = n,
                      !.transition_fadeout = f] :
         a \in BOOLEAN, p \in BOOLEAN, s \in BOOLEAN, n \in {0, MaxTrack},
         f \in {0, KssFrames - 1, KssFrames, KssFrames + 1} }

InitLine ==
    \E lines \in [1..KssLines -> LineStates] :
       InitMixerAt(<< >>, 0,
                   << [CartridgeKSS(KssLines) EXCEPT !.m_lines = lines, !.m_next_mixer = KssLines] >>,
                   TRUE, MinRate, KssFrames)

NextLine ==
    \/ WriteLoop \/ WriteLock \/ MixBegin
    \/ MixCartridge \/ KssLineActive \/ KssLinePause \/ KssLineCalc \/ KssLineFade
    \/ KssLineDeactivate \/ MixEncode \/ WriteUnlock \/ WriteCheck
    \/ WriteWaitLock \/ WritePark \/ SpuriousWake \/ WriteWake \/ WriteWaitUnlock
    \/ WritePublish
    \/ ReadBegin(buffer_packet_sample_size) \/ ReadCheck \/ ReadCopy

SpecLine == InitLine /\ [][NextLine]_vars

\* the line the producer is reading, before and after the step
LineRead == kss_cartridges[pv].m_lines[pl]
LineReadNext == kss_cartridges'[pv].m_lines[pl]

\* C36: the line read of a packet promotes next_track exactly when the line
\* is active, not paused, with a pending track and no fade running: the read
\* goes on to the promotion test exactly for the active lines that are not
\* paused, the test promotes (current_track is the pending track, next_track
\* is 0) exactly when a track is pending and transition_fadeout is 0, and no
\* other step changes current_track or next_track, so that current_track
\* stays while a fade runs.
PromotionOnlyWithoutFade ==
    /\ [](ppc \in {"k_calc", "k_fade", "k_deact"} => (LineRead.active /\ ~LineRead.pause))
    /\ [][ /\ (ppc = "k_active" /\ ppc' # ppc) => (ppc' = "k_pause" <=> LineRead.active)
           /\ (ppc = "k_pause" /\ ppc' # ppc) => (ppc' = "k_calc" <=> ~LineRead.pause)
           /\ (ppc = "k_calc" /\ ppc' # ppc) =>
                 IF LineRead.next_track # 0 /\ LineRead.transition_fadeout = 0
                 THEN /\ LineReadNext.current_track = LineRead.next_track
                      /\ LineReadNext.next_track = 0
                 ELSE /\ LineReadNext.current_track = LineRead.current_track
                      /\ LineReadNext.next_track = LineRead.next_track
           /\ \A c \in 1..Len(kss_cartridges) : \A l \in 1..Len(kss_cartridges[c].m_lines) :
                 LET before == kss_cartridges[c].m_lines[l]
                     after == kss_cartridges'[c].m_lines[l]
                 IN  (after.current_track # before.current_track
                      \/ after.next_track # before.next_track) =>
                        /\ ppc = "k_calc" /\ pv = c /\ pl = l
                        /\ before.active /\ ~before.pause
                        /\ before.next_track # 0 /\ before.transition_fadeout = 0 ]_vars

\* the last line was active with a pending track and no fade: the read of
\* the packet has made the pending track its current track
PromotionOnlyWithoutFadeWitness ==
    /\ ppc = "k_fade"
    /\ pl = Len(kss_cartridges[pv].m_lines)
    /\ LineRead.current_track = MaxTrack
    /\ LineRead.next_track = 0
    /\ LineRead.transition_fadeout = 0

SetMasterVolume(v) ==
    /\ cpc = "idle"
    /\ master_volume' = v % 256
    /\ UNCHANGED << sources, mixer_channels, kss_cartridges >>
    /\ UNCHANGED << ring_vars, read_vars, ctl_vars, dev_vars, conf_vars, obs_vars, mix_vars >>

\* the values set_master_volume is called with: below 0, inside and above 255
Volumes == {-1, 0, 64, 256, 383, 511}

\* the sums of the voices in the mix buffer when the volume is applied: the
\* ends of the 16-bit and 24-bit ranges, values beyond them, and values near
\* the ends of the 32-bit accumulator
Sums == {-2000000000, -8388609, -8388608, -40000, -32769, -32768, -255, -1, 0,
         1, 255, 32767, 32768, 40000, 8388607, 8388608, 8421504, 2000000000}

\* the producer has summed the voices of a one-frame mono packet and is about
\* to apply the master volume and encode the packet
InitVolume ==
    \E n \in Sums, out_bits \in {16, 24} :
        /\ mixer = "bound"
        /\ sampling_rate = 44100
        /\ channels = 1
        /\ bits = out_bits
        /\ buffer_packet_sample_size = 1
        /\ sample_size = out_bits \div 8
        /\ buffer_total_size = BufferCount * (out_bits \div 8)
        /\ read_position = 0
        /\ read_inrange_index = 0
        /\ write_position = 0
        /\ producer_on = TRUE
        /\ paused = FALSE
        /\ buffer = [i \in 1..BufferCount |-> IF i = 1 THEN "torn" ELSE "zero"]
        /\ m = "producer"
        /\ ppc = "encode"
        /\ next = 0
        /\ rpc = "idle"
        /\ requested = 0
        /\ out_count = 0
        /\ out_zero = 0
        /\ remaining_out_count = 0
        /\ out_torn = FALSE
        /\ cpc = "idle"
        /\ carg = NoCall
        /\ ret = [op |-> "none", val |-> 0]
        /\ m_stream = TRUE
        /\ stream_active = TRUE
        /\ master_volume = 128
        /\ sources = << >>
        /\ mixer_channels = << >>
        /\ kss_cartridges = << >>
        /\ internal_sample_buffer = << 0 >>
        /\ internal_mix_buffer = << n >>
        /\ pv = 1
        /\ pl = 0
        /\ sample_count = 0
        /\ deactivate = FALSE
        /\ stop_all = "none"
        /\ issued = {}
        /\ fade_obs = NoFade
        /\ heard = Deaf
        /\ order = Unordered

NextVolume ==
    \/ WriteLoop \/ WriteLock \/ MixBegin \/ MixCartridge \/ MixEncode
    \/ WriteUnlock \/ WriteCheck
    \/ WriteWaitLock \/ WritePark \/ SpuriousWake \/ WriteWake \/ WriteWaitUnlock
    \/ WritePublish
    \/ \E n \in 0..MaxRequest : ReadBegin(n)
    \/ ReadCheck \/ ReadCopy
    \/ \E v \in Volumes : SetMasterVolume(v)

SpecVolume == InitVolume /\ [][NextVolume]_vars

\* the unsigned little-endian number held by the bytes of sample k of pcm
LittleEndian(pcm, k) ==
    LET base == (k - 1) * (bits \div 8)
    IN  pcm[base + 1] + 256 * pcm[base + 2] +
        (IF bits = 24 THEN 65536 * pcm[base + 3] ELSE 0)

\* C39: the stored master volume is always in 0..255 whatever value
\* set_master_volume is called with; the step that applies the volume turns
\* each mixed value n into floor(n * volume / 256); and the encoder does not
\* saturate: the bytes of each sample are the little-endian low 16 (24) bits
\* of that value, so a value outside the output range wraps modulo 2^16
\* (2^24).
MasterVolumeScalesAndWraps ==
    /\ [](master_volume \in 0..255)
    /\ [][ (ppc = "encode" /\ ppc' # ppc) =>
             \A k \in 1..Len(internal_mix_buffer) :
                LET n == internal_mix_buffer[k]
                    scaled == internal_mix_buffer'[k]
                    pcm == EncodeNbits(internal_mix_buffer')
                    range == IF bits = 24 THEN 16777216 ELSE 65536
                    \* n * volume - 256 * scaled, with n = 256 * q + r
                    rest == 256 * ((n \div 256) * master_volume - scaled)
                            + (n % 256) * master_volume
                IN  /\ rest \in 0..255
                    /\ Len(pcm) = Len(internal_mix_buffer) * (bits \div 8)
                    /\ \A b \in 1..Len(pcm) : pcm[b] \in 0..255
                    /\ LittleEndian(pcm, k) \in 0..(range - 1)
                    /\ (scaled - LittleEndian(pcm, k)) % range = 0 ]_vars

\* a volume of 255 was stored by a call with -1 or 511, and a sum of 40000
\* was scaled to 39843, which the 16-bit encoder emits as 0x9BA3 (-25693)
MasterVolumeScalesAndWrapsWitness ==
    /\ ppc = "unlock"
    /\ bits = 16
    /\ master_volume = 255
    /\ internal_mix_buffer = << 39843 >>
    /\ EncodeNbits(internal_mix_buffer) = << 163, 155 >>

(* ------- KSS handles that name no cartridge or no line of it ------------ *)
\* the cartridges after two calls of add_source_kss, play_kss_track on the
\* first and drop_source of the second: a playing line and an empty slot
DroppedCartridges == PlayingCartridges \o << NoCartridge >>

\* the mixer with these cartridges, started or never started
InitUnknown ==
    \E run \in BOOLEAN : InitMixerAt(<< >>, 0, DroppedCartridges, run, MinRate, KssFrames)

\* the slots of the cartridge table that hold a cartridge
PresentSlots == { c \in 1..Len(kss_cartridges) : kss_cartridges[c].present }

\* KSS handles of a slot that is empty or outside the table (slot 0 and the
\* slot after the last), alone and with a line index
NoCartridgeHandles ==
    { get_handle(get_kss_source_id(c), l) :
         c \in (0..(Len(kss_cartridges) + 1)) \ PresentSlots, l \in 0..1 }

\* KSS handles of a cartridge with a line index past its last line
NoLineHandles ==
    { get_handle(get_kss_source_id(c), Len(kss_cartridges[c].m_lines) + 1) :
         c \in PresentSlots }

\* handles of a cartridge without a line index: update_kss_track requires one
CartridgeHandles == { get_kss_source_id(c) : c \in PresentSlots }

NextUnknown ==
    \/ WriteLoop \/ WriteLock \/ MixBegin
    \/ MixCartridge \/ KssLineActive \/ KssLinePause \/ KssLineCalc \/ KssLineFade
    \/ KssLineDeactivate \/ MixEncode \/ WriteUnlock \/ WriteCheck
    \/ WriteWaitLock \/ WritePark \/ SpuriousWake \/ WriteWake \/ WriteWaitUnlock
    \/ WritePublish
    \/ ReadBegin(buffer_packet_sample_size) \/ ReadCheck \/ ReadCopy
    \/ \E h \in NoCartridgeHandles \cup NoLineHandles \cup CartridgeHandles,
          t \in {0, MaxTrack}, f \in 0..MaxFadeMs :
          UpdateKssTrack(h, t, FALSE, TRUE, f)
    \/ \E h \in NoCartridgeHandles \cup NoLineHandles : UpdateKssVolume(h, 100)
    \/ \E h \in NoCartridgeHandles \cup NoLineHandles : UpdateKssFrequency(h, 50)
    \/ \E h \in NoCartridgeHandles \cup NoLineHandles : StopPlayback(h)
    \/ \E h \in NoCartridgeHandles \cup NoLineHandles, p \in BOOLEAN :
          PauseResumePlayback(h, p)

SpecUnknown == InitUnknown /\ [][NextUnknown]_vars

\* the call of the step returned at once: no line, cartridge or voice was
\* changed, the producer was not paused and the mutex was not taken
ReturnedUntouched ==
    /\ cpc' = "idle"
    /\ kss_cartridges' = kss_cartridges
    /\ mixer_channels' = mixer_channels
    /\ paused' = paused
    /\ producer_on' = producer_on
    /\ m' = m

\* C40: with a KSS handle whose cartridge slot is empty or outside the table,
\* or whose line index is 0 where a line is required (update_kss_track) or
\* past the last line of the cartridge, update_kss_track, update_kss_volume,
\* update_kss_frequency, stop_playback and pause_resume_playback change no
\* line and no cartridge and do not pause the producer, and the three that
\* return a bool return false.
UnknownKssHandleIsNoOp ==
    [][ (cpc = "idle" /\ (cpc' # cpc \/ carg' # carg \/ ret' # ret)) =>
          \A h \in NoCartridgeHandles \cup NoLineHandles \cup CartridgeHandles :
             /\ (\E t \in {0, MaxTrack}, f \in 0..MaxFadeMs :
                    UpdateKssTrack(h, t, FALSE, TRUE, f)) =>
                   (ReturnedUntouched /\ ret' = [op |-> "update_kss_track", val |-> FALSE])
             /\ h \notin CartridgeHandles =>
                   /\ UpdateKssVolume(h, 100) =>
                         (ReturnedUntouched /\
                          ret' = [op |-> "update_kss_volume", val |-> FALSE])
                   /\ UpdateKssFrequency(h, 50) =>
                         (ReturnedUntouched /\
                          ret' = [op |-> "update_kss_frequency", val |-> FALSE])
                   /\ StopPlayback(h) => ReturnedUntouched
                   /\ \A p \in BOOLEAN : PauseResumePlayback(h, p) => ReturnedUntouched ]_vars

\* update_kss_volume has returned false while the producer runs, unpaused,
\* past its first packet, and the line of the first cartridge still plays
\* at its volume
UnknownKssHandleIsNoOpWitness ==
    /\ ret = [op |-> "update_kss_volume", val |-> FALSE]
    /\ cpc = "idle"
    /\ producer_on
    /\ ~paused
    /\ write_position # 0
    /\ kss_cartridges[1].m_lines[1].active
    /\ kss_cartridges[1].m_master_volume = 60
    /\ ~kss_cartridges[2].present

====
